---- MODULE Spec2Model ----
(***************************************************************************)
(* The PSA card agent of NBA-Analyzer: the LangGraph state machine of      *)
(* lib/agent/graph.ts, its six tools, and the storage they write to        *)
(* (lib/storage.ts, lib/pinecone.ts).                                      *)
(*                                                                         *)
(* A JavaScript value that may be undefined is modelled by a value of the  *)
(* same shape: Undefined for strings, NoRec for objects, NoSeq for arrays  *)
(* and for strings built by concatenation (sequences of parts).            *)
(***************************************************************************)
EXTENDS Integers, Sequences, FiniteSets, TLC

VARIABLES
    env,          \* process.env: which API keys are configured
    pc,           \* "idle", the node the graph runs next, END, or "returned"
    state,        \* the AgentState of the run in progress
    initialState, \* the initialState executePSACardAgent built for this run
    runs,         \* number of executePSACardAgent invocations so far
    textIndex,    \* Pinecone text index: id -> [values, metadata] or NoRec
    imageIndex,   \* Pinecone image index: id -> [values, metadata] or NoRec
    files,        \* files written under public/cards
    trace,        \* history: the nodes executed in this run, in order
    calls,        \* history: the capabilities invoked in this run
    faults,       \* history: the capabilities that threw in this run
    extraction,   \* history: the object the extraction capability returned
    response,     \* what POST /api/agent answered, NoRec before it has
    lastCall,     \* the last call of lib/pinecone.ts and how it ended
    lastStored,   \* history: id -> the record its last storeCard stored
    replaced,     \* history: ids stored again with other attributes
    deleted,      \* history: ids deleted with no storeCard since
    inflight      \* the calls that have begun and not yet settled, by caller

vars == <<env, pc, state, initialState, runs, textIndex, imageIndex, files,
          trace, calls, faults, extraction, response, lastCall, lastStored,
          replaced, deleted, inflight>>

\* What only the calls of lib/pinecone.ts change.
engineLog == <<lastCall, lastStored, replaced, deleted, inflight>>

----------------------------------------------------------------------------
(* Bounds of the model *)

MaxRuns == 1

----------------------------------------------------------------------------
(* JavaScript values *)

Undefined == "undefined"
NoRec == [undefined |-> TRUE]
NoSeq == <<>>

END == "__end__"

\* Partial<AgentState> merged into the state: every channel of AgentAnnotation
\* is a last-value channel, so a key of the update replaces the old value and
\* a key the update does not carry keeps it.
MergeUpdate_DropsBuffer(s, upd) ==
    [k \in DOMAIN s |-> IF k \in DOMAIN upd THEN upd[k]
                         ELSE IF k = "imageBuffer" THEN [undefined |-> TRUE]
                         ELSE s[k]]

MergeUpdate(s, upd) ==
    [k \in DOMAIN s |-> IF k \in DOMAIN upd THEN upd[k] ELSE s[k]]

Nodes == {"get_card_info", "validate_nba_card", "certify_card",
          "describe_card", "generate_embeddings", "save_to_database"}

routeNext(s) ==
    IF s.next = "end" \/ s.next = END THEN END
    ELSE IF s.next = Undefined THEN END
    ELSE s.next

----------------------------------------------------------------------------
(* Inputs *)

maxSize == 20 * 1024 * 1024

\* Variant: the allow-list also lets plain text through.
allowedTypes_WithText ==
    {"image/jpeg", "image/png", "image/webp", "application/pdf", "text/plain"}

allowedTypes == {"image/jpeg", "image/png", "image/webp", "application/pdf"}

\* imageData is a base64 string, with or without a data-URL prefix; the model
\* keeps the prefix and the number of bytes the base64 payload decodes to.
DataUrlPrefixes == {"", "data:image/jpeg;base64", "data:application/pdf;base64"}
PayloadSizes == {maxSize, maxSize + 1}
ImageDatas == {NoRec} \cup [prefix : DataUrlPrefixes, bytes : PayloadSizes]
MimeTypes == {Undefined, "text/plain", "image/jpeg", "application/pdf"}
UserHints == {Undefined, "rookie card"}

\* imageData.split(",")[1] || imageData, then Buffer.from(.., "base64")
BufferFromImageData(imageData) == [length |-> imageData.bytes]

----------------------------------------------------------------------------
(* Tool 1: get_card_info *)

\* Variant: the failure is recorded and the run goes on to the validation.
getCardInfoFailed_Continue(s, message) ==
    [update |->
        [currentStep |-> "get_card_info_failed",
         errors |-> Append(s.errors, message),
         finalResult |-> [success |-> FALSE,
                          error |-> "image_processing_failed",
                          reason |-> message],
         next |-> "validate_nba_card"],
     calls |-> {}, faults |-> {}]

getCardInfoFailed(s, message) ==
    [update |->
        [currentStep |-> "get_card_info_failed",
         errors |-> Append(s.errors, message),
         finalResult |-> [success |-> FALSE,
                          error |-> "image_processing_failed",
                          reason |-> message],
         next |-> "end"],
     calls |-> {}, faults |-> {}]

getCardInfo(s) ==
    IF s.imageData = NoRec
    THEN getCardInfoFailed(s, "No image data provided")
    ELSE IF s.mimeType = Undefined
    THEN getCardInfoFailed(s, "No MIME type provided")
    ELSE IF s.mimeType \notin allowedTypes
    THEN getCardInfoFailed(s,
            "Invalid image type. Supported types: JPEG, PNG, WEBP, PDF")
    ELSE LET imageBuffer == BufferFromImageData(s.imageData) IN
         IF imageBuffer.length > maxSize
         THEN getCardInfoFailed(s, "Image too large. Maximum size is 20MB.")
         ELSE [update |-> [imageBuffer |-> imageBuffer,
                           currentStep |-> "get_card_info_completed",
                           next |-> "validate_nba_card"],
               calls |-> {}, faults |-> {}]

----------------------------------------------------------------------------
(* Tool 2: validate_nba_card *)

\* psa_grade is z.number().min(1).max(10).optional(): 0 stands for an absent
\* grade (both make !psa_grade true).
NoGrade == 0

Falsy(str) == str = Undefined \/ str = ""

\* Variant: the certification number is not among the fields checked.
MissingRequired_NoCert(a) ==
    \/ Falsy(a.player_name)
    \/ Falsy(a.year)
    \/ Falsy(a.brand)
    \/ a.psa_grade = NoGrade

MissingRequired(a) ==
    \/ Falsy(a.player_name)
    \/ Falsy(a.year)
    \/ Falsy(a.brand)
    \/ a.psa_grade = NoGrade
    \/ Falsy(a.cert_number)

CardDataOf(a) ==
    [player_name |-> a.player_name,
     year |-> a.year,
     brand |-> a.brand,
     psa_grade |-> a.psa_grade,
     cert_number |-> a.cert_number,
     set_name |-> a.set_name,
     card_number |-> a.card_number]

DefaultRejection == "Image does not contain a valid PSA-graded NBA card."
IncompleteReason ==
    "Unable to extract all required information from the PSA label."

OrDefault(str, default) == IF Falsy(str) THEN default ELSE str

validateThrown(s, message) ==
    [currentStep |-> "validate_nba_card_failed",
     errors |-> Append(s.errors, message),
     finalResult |-> [success |-> FALSE,
                      error |-> "validation_failed",
                      reason |-> message],
     next |-> "end"]

validateIncomplete ==
    [validationResult |-> [is_valid |-> FALSE, error |-> IncompleteReason],
     currentStep |-> "validate_nba_card_failed",
     finalResult |-> [success |-> FALSE,
                      error |-> "image_not_supported",
                      reason |-> IncompleteReason],
     next |-> "end"]

validateAccepted(a) ==
    [validationResult |-> [is_valid |-> TRUE, card_data |-> CardDataOf(a)],
     currentStep |-> "validate_nba_card_completed",
     next |-> "certify_card"]

\* Variant: the reason the capability gave is dropped for the default text.
validateRejected_DefaultOnly(a) ==
    [validationResult |->
        [is_valid |-> FALSE, rejection_reason |-> DefaultRejection],
     currentStep |-> "validate_nba_card_rejected",
     finalResult |-> [success |-> FALSE,
                      error |-> "image_not_supported",
                      reason |-> DefaultRejection],
     next |-> "end"]

validateRejected(a) ==
    [validationResult |->
        [is_valid |-> FALSE,
         rejection_reason |-> OrDefault(a.rejection_reason, DefaultRejection)],
     currentStep |-> "validate_nba_card_rejected",
     finalResult |-> [success |-> FALSE,
                      error |-> "image_not_supported",
                      reason |-> OrDefault(a.rejection_reason, DefaultRejection)],
     next |-> "end"]

\* Variant: a reading with every field counts as valid whatever its flag says.
IsValidPSACard_OrComplete(a) == a.is_valid_psa_card \/ ~MissingRequired(a)

IsValidPSACard(a) == a.is_valid_psa_card

\* e: process.env; out: what generateObject does when it is called, either
\* [throws |-> TRUE, message] or [throws |-> FALSE, object].
validateNBACard(s, e, out) ==
    IF s.imageBuffer = NoRec
    THEN [update |-> validateThrown(s, "No image buffer available"),
          calls |-> {}, faults |-> {}]
    ELSE IF ~e.GOOGLE_GENERATIVE_AI_API_KEY
    THEN [update |-> validateThrown(s, "Google API key not configured"),
          calls |-> {}, faults |-> {}]
    ELSE IF out.throws
    THEN [update |-> validateThrown(s, out.message),
          calls |-> {"generateObject"}, faults |-> {"generateObject"}]
    ELSE [update |->
             IF IsValidPSACard(out.object)
             THEN IF MissingRequired(out.object)
                  THEN validateIncomplete
                  ELSE validateAccepted(out.object)
             ELSE validateRejected(out.object),
          calls |-> {"generateObject"}, faults |-> {}]

\* true when !validationResult?.is_valid || !validationResult.card_data is false
HasValidCard(s) ==
    /\ s.validationResult # NoRec
    /\ s.validationResult.is_valid
    /\ "card_data" \in DOMAIN s.validationResult

----------------------------------------------------------------------------
(* Tool 3: certify_card *)

\* Variant: the reference is the address of the lookup page.
CertUrl_NoNumber(certNumber) == <<"https://www.psacard.com/cert/">>

CertUrl(certNumber) == <<"https://www.psacard.com/cert/", certNumber>>

\* Variant: a failed certification ends the run.
certifyCard_FatalOnFailure(s) ==
    IF ~HasValidCard(s)
    THEN [update |->
            [certificationResult |-> [is_certified |-> FALSE,
                                      error |-> "No valid card data to certify"],
             currentStep |-> "certify_card_failed",
             errors |-> Append(s.errors, "No valid card data to certify"),
             finalResult |-> [success |-> FALSE,
                              error |-> "certification_failed",
                              reason |-> "No valid card data to certify"],
             next |-> "end"],
          calls |-> {}, faults |-> {}]
    ELSE [update |->
            [certificationResult |->
                [is_certified |-> TRUE,
                 cert_url |-> CertUrl(s.validationResult.card_data.cert_number)],
             currentStep |-> "certify_card_completed",
             next |-> "describe_card"],
          calls |-> {}, faults |-> {}]

certifyCard(s) ==
    IF ~HasValidCard(s)
    THEN [update |->
            [certificationResult |-> [is_certified |-> FALSE,
                                      error |-> "No valid card data to certify"],
             currentStep |-> "certify_card_failed",
             errors |-> Append(s.errors, "No valid card data to certify"),
             next |-> "describe_card"],
          calls |-> {}, faults |-> {}]
    ELSE [update |->
            [certificationResult |->
                [is_certified |-> TRUE,
                 cert_url |-> CertUrl(s.validationResult.card_data.cert_number)],
             currentStep |-> "certify_card_completed",
             next |-> "describe_card"],
          calls |-> {}, faults |-> {}]

----------------------------------------------------------------------------
(* Tool 4: describe_card *)

\* A description is a string built by concatenation: the sequence of its parts.
buildBaseDescription(card, certUrl) ==
    IF card = NoRec
    THEN <<"Card description unavailable">>
    ELSE <<"This is a PSA ", ToString(card.psa_grade), " graded ",
           card.year, " ", card.brand>>
         \o (IF ~Falsy(card.set_name) THEN <<" ", card.set_name>> ELSE <<>>)
         \o <<" card featuring ", card.player_name, ".">>
         \o (IF ~Falsy(card.card_number)
             THEN <<" Card number: ", card.card_number, ".">> ELSE <<>>)
         \o <<" PSA Certification: ", card.cert_number, ".">>
         \o (IF certUrl # NoSeq
             THEN <<" You can verify this card at ">> \o certUrl \o <<".">>
             ELSE <<>>)

\* certificationResult?.cert_url
CertUrlOf(s) ==
    IF s.certificationResult # NoRec
       /\ "cert_url" \in DOMAIN s.certificationResult
    THEN s.certificationResult.cert_url
    ELSE NoSeq

\* state.validationResult?.card_data
CardDataOfState(s) ==
    IF s.validationResult # NoRec /\ "card_data" \in DOMAIN s.validationResult
    THEN s.validationResult.card_data
    ELSE NoRec

basicDescription(card) ==
    IF card = NoRec
    THEN <<"Card description unavailable">>
    ELSE <<"PSA ", ToString(card.psa_grade), " ", card.year, " ", card.brand,
           " ", card.player_name, " - Cert #", card.cert_number>>

\* The web-search part of describe_card: [summary, errors, calls, faults].
\* lookup: what tavilyClient.search does when called, [throws, message, summary]
\* (summary: combinedSummary of the response, "" when it has nothing).
\* Variant: the lookup is made whatever the flag says.
WebSearch_Unconditional(s, e, lookup) ==
    IF ~e.TAVILY_API_KEY
    THEN [summary |-> Undefined,
          errors |-> <<"Web search requested but TAVILY_API_KEY is not configured.">>,
          calls |-> {}, faults |-> {}]
    ELSE IF lookup.throws
    THEN [summary |-> Undefined,
          errors |-> <<"Tavily search failed: " \o lookup.message>>,
          calls |-> {"tavily.search"}, faults |-> {"tavily.search"}]
    ELSE [summary |-> IF lookup.summary = "" THEN Undefined ELSE lookup.summary,
          errors |-> <<>>,
          calls |-> {"tavily.search"}, faults |-> {}]

WebSearch(s, e, lookup) ==
    IF ~s.shouldWebSearch
    THEN [summary |-> Undefined, errors |-> <<>>, calls |-> {}, faults |-> {}]
    ELSE IF ~e.TAVILY_API_KEY
    THEN [summary |-> Undefined,
          errors |-> <<"Web search requested but TAVILY_API_KEY is not configured.">>,
          calls |-> {}, faults |-> {}]
    ELSE IF lookup.throws
    THEN [summary |-> Undefined,
          errors |-> <<"Tavily search failed: " \o lookup.message>>,
          calls |-> {"tavily.search"}, faults |-> {"tavily.search"}]
    ELSE [summary |-> IF lookup.summary = "" THEN Undefined ELSE lookup.summary,
          errors |-> <<>>,
          calls |-> {"tavily.search"}, faults |-> {}]

\* Variant: the fallback description ends with the message of the failure.
Enhance_FallbackWithMessage(e, baseDescription, generation) ==
    IF ~(e.GOOGLE_GENERATIVE_AI_API_KEY \/ e.GOOGLE_API_KEY)
    THEN [description |-> baseDescription
                            \o <<"Google Generative AI key missing. Set GOOGLE_GENERATIVE_AI_API_KEY.">>,
          errors |-> <<"Google Generative AI key missing. Set GOOGLE_GENERATIVE_AI_API_KEY.">>,
          calls |-> {}, faults |-> {}]
    ELSE IF generation.throws
    THEN [description |-> baseDescription \o <<generation.message>>,
          errors |-> <<generation.message>>,
          calls |-> {"model.invoke"}, faults |-> {"model.invoke"}]
    ELSE [description |-> IF generation.text # NoSeq THEN generation.text
                          ELSE baseDescription,
          errors |-> <<>>,
          calls |-> {"model.invoke"}, faults |-> {}]

\* Variant: the description is assigned only when the generation succeeds.
Enhance_NoFallback(e, baseDescription, generation) ==
    IF ~(e.GOOGLE_GENERATIVE_AI_API_KEY \/ e.GOOGLE_API_KEY)
    THEN [description |-> NoSeq,
          errors |-> <<"Google Generative AI key missing. Set GOOGLE_GENERATIVE_AI_API_KEY.">>,
          calls |-> {}, faults |-> {}]
    ELSE IF generation.throws
    THEN [description |-> NoSeq,
          errors |-> <<generation.message>>,
          calls |-> {"model.invoke"}, faults |-> {"model.invoke"}]
    ELSE [description |-> IF generation.text # NoSeq THEN generation.text
                          ELSE baseDescription,
          errors |-> <<>>,
          calls |-> {"model.invoke"}, faults |-> {}]

\* The enhancement part of describe_card: [description, errors, calls, faults].
\* generation: what model.invoke does when called, [throws, message, text]
\* (text: extractTextFromAIMessage of the response, NoSeq when it is "").
Enhance(e, baseDescription, generation) ==
    IF ~(e.GOOGLE_GENERATIVE_AI_API_KEY \/ e.GOOGLE_API_KEY)
    THEN [description |-> baseDescription,
          errors |-> <<"Google Generative AI key missing. Set GOOGLE_GENERATIVE_AI_API_KEY.">>,
          calls |-> {}, faults |-> {}]
    ELSE IF generation.throws
    THEN [description |-> baseDescription,
          errors |-> <<generation.message>>,
          calls |-> {"model.invoke"}, faults |-> {"model.invoke"}]
    ELSE [description |-> IF generation.text # NoSeq THEN generation.text
                          ELSE baseDescription,
          errors |-> <<>>,
          calls |-> {"model.invoke"}, faults |-> {}]

describeCard(s, e, lookup, generation) ==
    IF ~HasValidCard(s)
    THEN [update |->
            [description |-> basicDescription(CardDataOfState(s)),
             webSearchResults |-> s.webSearchResults,
             currentStep |-> "describe_card_failed",
             errors |-> Append(s.errors, "No valid card data to describe"),
             next |-> "generate_embeddings"],
          calls |-> {}, faults |-> {}]
    ELSE LET card == s.validationResult.card_data
             baseDescription == buildBaseDescription(card, CertUrlOf(s))
             web == WebSearch(s, e, lookup)
             enh == Enhance(e, baseDescription, generation)
             newErrors == web.errors \o enh.errors
             result == [description |-> enh.description,
                        webSearchResults |-> web.summary,
                        currentStep |-> "describe_card_completed",
                        next |-> "generate_embeddings"]
         IN [update |->
                IF newErrors # <<>>
                THEN result @@ [errors |-> s.errors \o newErrors]
                ELSE result,
             calls |-> web.calls \cup enh.calls,
             faults |-> web.faults \cup enh.faults]

----------------------------------------------------------------------------
(* Tool 5: generate_embeddings *)

\* Variant: a failed embedding is tried again.
generateEmbeddingsFailed_Retry(s, message) ==
    [currentStep |-> "generate_embeddings_failed",
     errors |-> Append(s.errors, message),
     next |-> "generate_embeddings"]

\* Variant: a failed embedding is recorded and the run goes on to the save.
generateEmbeddingsFailed_Continue(s, message) ==
    [currentStep |-> "generate_embeddings_failed",
     errors |-> Append(s.errors, message),
     next |-> "save_to_database"]

\* Variant: the failure is the only entry of the errors list.
generateEmbeddingsFailed_OwnError(s, message) ==
    [currentStep |-> "generate_embeddings_failed",
     errors |-> <<message>>,
     finalResult |-> [success |-> FALSE,
                      error |-> "embedding_failed",
                      reason |-> message],
     next |-> "end"]

generateEmbeddingsFailed(s, message) ==
    [currentStep |-> "generate_embeddings_failed",
     errors |-> Append(s.errors, message),
     finalResult |-> [success |-> FALSE,
                      error |-> "embedding_failed",
                      reason |-> message],
     next |-> "end"]

\* Variant: the image embedding is not written to the state.
generateEmbeddingsCompleted_TextOnly(text, image) ==
    [textEmbedding |-> text,
     currentStep |-> "generate_embeddings_completed",
     next |-> "save_to_database"]

generateEmbeddingsCompleted(text, image) ==
    [textEmbedding |-> text,
     imageEmbedding |-> image,
     currentStep |-> "generate_embeddings_completed",
     next |-> "save_to_database"]

\* Variant: the vector of the call that succeeded is kept when the other
\* call fails.
generateEmbeddings_KeepsPartial(s, out) ==
    IF ~HasValidCard(s)
    THEN [update |-> generateEmbeddingsFailed(s,
                        "No valid card data for embedding generation"),
          calls |-> {}, faults |-> {}]
    ELSE IF s.imageBuffer = NoRec
    THEN [update |-> generateEmbeddingsFailed(s,
                        "No image buffer available for image embedding"),
          calls |-> {}, faults |-> {}]
    ELSE [update |->
            IF out.textThrows /\ (~out.imageThrows \/ out.first = "text")
            THEN generateEmbeddingsFailed(s, "Failed to generate text embedding")
            ELSE IF out.imageThrows
            THEN generateEmbeddingsFailed(s, "Failed to generate image embedding")
                 @@ [textEmbedding |-> out.text]
            ELSE generateEmbeddingsCompleted(out.text, out.image),
          calls |-> {"generateTextEmbedding", "generateImageEmbedding"},
          faults |-> (IF out.textThrows THEN {"generateTextEmbedding"} ELSE {})
                     \cup (IF out.imageThrows THEN {"generateImageEmbedding"}
                           ELSE {})]

\* out: what the two embedding calls do, [textThrows, imageThrows, text,
\* image, first]; Promise.all rejects with the rejection that comes first.
generateEmbeddings(s, out) ==
    IF ~HasValidCard(s)
    THEN [update |-> generateEmbeddingsFailed(s,
                        "No valid card data for embedding generation"),
          calls |-> {}, faults |-> {}]
    ELSE IF s.imageBuffer = NoRec
    THEN [update |-> generateEmbeddingsFailed(s,
                        "No image buffer available for image embedding"),
          calls |-> {}, faults |-> {}]
    ELSE [update |->
            IF out.textThrows /\ (~out.imageThrows \/ out.first = "text")
            THEN generateEmbeddingsFailed(s, "Failed to generate text embedding")
            ELSE IF out.imageThrows
            THEN generateEmbeddingsFailed(s, "Failed to generate image embedding")
            ELSE generateEmbeddingsCompleted(out.text, out.image),
          calls |-> {"generateTextEmbedding", "generateImageEmbedding"},
          faults |-> (IF out.textThrows THEN {"generateTextEmbedding"} ELSE {})
                     \cup (IF out.imageThrows THEN {"generateImageEmbedding"}
                           ELSE {})]

----------------------------------------------------------------------------
(* lib/storage.ts *)

\* imageData.match(/^data:image\/(\w+);base64,(.+)$/): the extension the
\* pattern captures, Undefined when the string does not match.
ImageExtension(imageData) ==
    IF imageData.prefix = "data:image/jpeg;base64" /\ imageData.bytes > 0
    THEN "jpeg"
    ELSE Undefined

\* fs: what the file system does, "ok", "mkdir_fails" or "write_fails".
\* Every failure leaves saveCardImage as Error("Failed to save card image").
saveCardImage(certNumber, imageData, fs, fileSet) ==
    IF fs = "mkdir_fails"
    THEN [ok |-> FALSE, path |-> NoSeq, files |-> fileSet,
          faults |-> {"saveCardImage", "fs"}]
    ELSE IF ImageExtension(imageData) = Undefined
    THEN [ok |-> FALSE, path |-> NoSeq, files |-> fileSet,
          faults |-> {"saveCardImage"}]
    ELSE IF fs = "write_fails"
    THEN [ok |-> FALSE, path |-> NoSeq, files |-> fileSet,
          faults |-> {"saveCardImage", "fs"}]
    ELSE LET filename == <<certNumber, ".", ImageExtension(imageData)>>
             relativePath == <<"/cards/">> \o filename
         IN [ok |-> TRUE, path |-> relativePath,
             files |-> fileSet \cup {relativePath},
             faults |-> {}]

----------------------------------------------------------------------------
(* lib/pinecone.ts *)

Metadata(card, imagePath, timestamp) ==
    [player_name |-> card.player_name,
     year |-> card.year,
     brand |-> card.brand,
     psa_grade |-> card.psa_grade,
     cert_number |-> card.cert_number,
     set_name |-> OrDefault(card.set_name, ""),
     card_number |-> OrDefault(card.card_number, ""),
     image_path |-> imagePath,
     created_at |-> timestamp]

\* Variant: an upsert leaves the index with the upserted entry alone.
Upsert_Clobbers(index, id, values, metadata) ==
    [k \in {id} |-> [values |-> values, metadata |-> metadata]]

\* index.upsert([{id, values, metadata}])
Upsert(index, id, values, metadata) ==
    [k \in DOMAIN index \cup {id} |->
        IF k = id THEN [values |-> values, metadata |-> metadata]
        ELSE index[k]]

\* Variant: a failed image upsert is logged and the call returns.
storeCard_IgnoresImageFailure(card, imagePath, textEmbedding, imageEmbedding, e, px, tIdx, iIdx, timestamp) ==
    LET id == card.cert_number
        metadata == Metadata(card, imagePath, timestamp)
    IN IF ~e.PINECONE_API_KEY
       THEN [ok |-> FALSE, textIndex |-> tIdx, imageIndex |-> iIdx,
             calls |-> {}, faults |-> {"storeCard"}]
       ELSE IF px.text = "fails"
       THEN [ok |-> FALSE, textIndex |-> tIdx, imageIndex |-> iIdx,
             calls |-> {"textIndex.upsert"},
             faults |-> {"storeCard", "textIndex.upsert"}]
       ELSE IF px.image = "fails"
       THEN [ok |-> TRUE,
             textIndex |-> Upsert(tIdx, id, textEmbedding, metadata),
             imageIndex |-> iIdx,
             calls |-> {"textIndex.upsert", "imageIndex.upsert"},
             faults |-> {"imageIndex.upsert"}]
       ELSE [ok |-> TRUE,
             textIndex |-> Upsert(tIdx, id, textEmbedding, metadata),
             imageIndex |-> Upsert(iIdx, id, imageEmbedding, metadata),
             calls |-> {"textIndex.upsert", "imageIndex.upsert"},
             faults |-> {}]

\* Variant: the two upserts are issued together and joined.
storeCard_Joined(card, imagePath, textEmbedding, imageEmbedding, e, px, tIdx, iIdx, timestamp) ==
    LET id == card.cert_number
        metadata == Metadata(card, imagePath, timestamp)
        failed == (IF px.text = "fails" THEN {"textIndex.upsert"} ELSE {})
                  \cup (IF px.image = "fails" THEN {"imageIndex.upsert"} ELSE {})
    IN IF ~e.PINECONE_API_KEY
       THEN [ok |-> FALSE, textIndex |-> tIdx, imageIndex |-> iIdx,
             calls |-> {}, faults |-> {"storeCard"}]
       ELSE [ok |-> failed = {},
             textIndex |-> IF px.text = "fails" THEN tIdx
                           ELSE Upsert(tIdx, id, textEmbedding, metadata),
             imageIndex |-> IF px.image = "fails" THEN iIdx
                            ELSE Upsert(iIdx, id, imageEmbedding, metadata),
             calls |-> {"textIndex.upsert", "imageIndex.upsert"},
             faults |-> IF failed = {} THEN {} ELSE failed \cup {"storeCard"}]

\* px: what the two index writes do, [text, image], each "ok" or "fails".
\* The image write is issued after the text write has succeeded.
storeCard(card, imagePath, textEmbedding, imageEmbedding, e, px, tIdx, iIdx, timestamp) ==
    LET id == card.cert_number
        metadata == Metadata(card, imagePath, timestamp)
    IN IF ~e.PINECONE_API_KEY
       THEN [ok |-> FALSE, textIndex |-> tIdx, imageIndex |-> iIdx,
             calls |-> {}, faults |-> {"storeCard"}]
       ELSE IF px.text = "fails"
       THEN [ok |-> FALSE, textIndex |-> tIdx, imageIndex |-> iIdx,
             calls |-> {"textIndex.upsert"},
             faults |-> {"storeCard", "textIndex.upsert"}]
       ELSE IF px.image = "fails"
       THEN [ok |-> FALSE,
             textIndex |-> Upsert(tIdx, id, textEmbedding, metadata),
             imageIndex |-> iIdx,
             calls |-> {"textIndex.upsert", "imageIndex.upsert"},
             faults |-> {"storeCard", "imageIndex.upsert"}]
       ELSE [ok |-> TRUE,
             textIndex |-> Upsert(tIdx, id, textEmbedding, metadata),
             imageIndex |-> Upsert(iIdx, id, imageEmbedding, metadata),
             calls |-> {"textIndex.upsert", "imageIndex.upsert"},
             faults |-> {}]

\* index.deleteOne(id)
DeleteOne(index, id) == [k \in DOMAIN index \ {id} |-> index[k]]

\* The score of a cosine index, in tenths: cos(u, v) cut to one decimal, and
\* 0 for a zero vector (the dummy vector of getAllCards).
Dot(u, v) == u[1] * v[1] + u[2] * v[2]
Cosine(u, v) ==
    LET d == Dot(u, v)
        n == Dot(u, u) * Dot(v, v)
        k == CHOOSE j \in 0..10 :
                 /\ j * j * n <= 100 * d * d
                 /\ (j = 10 \/ 100 * d * d < (j + 1) * (j + 1) * n)
    IN IF n = 0 THEN 0 ELSE IF d < 0 THEN 0 - k ELSE k

\* params.x || fallback for an optional number: the fallback replaces an
\* absent x and also a 0.
OrNumber(params, key, fallback) ==
    IF key \in DOMAIN params /\ params[key] # 0 THEN params[key] ELSE fallback

\* The weights are kept in tenths: 6 is 0.6 and 4 is 0.4.
DefaultTopK == 10
DefaultTextWeight == 6
DefaultImageWeight == 4

\* Variant: a supplied max_grade takes the place of the min_grade condition.
BuildFilter_MaxReplacesMin(params) ==
    IF "filters" \notin DOMAIN params THEN <<>>
    ELSE LET f == params.filters
             has(key) == key \in DOMAIN f
             eq(key) == has(key) /\ ~Falsy(f[key])
             keys == {k \in {"player_name", "year", "brand"} : eq(k)}
                     \cup (IF has("min_grade") \/ has("max_grade")
                           THEN {"psa_grade"} ELSE {})
         IN [k \in keys |->
               IF k = "psa_grade"
               THEN [gte |-> IF has("min_grade") /\ ~has("max_grade")
                             THEN {f.min_grade} ELSE {},
                     lte |-> IF has("max_grade") THEN {f.max_grade} ELSE {}]
               ELSE [eq |-> f[k]]]

\* The metadata filter built from params.filters: the conditions by field,
\* empty when nothing is to be filtered.
BuildFilter(params) ==
    IF "filters" \notin DOMAIN params THEN <<>>
    ELSE LET f == params.filters
             has(key) == key \in DOMAIN f
             eq(key) == has(key) /\ ~Falsy(f[key])
             keys == {k \in {"player_name", "year", "brand"} : eq(k)}
                     \cup (IF has("min_grade") \/ has("max_grade")
                           THEN {"psa_grade"} ELSE {})
         IN [k \in keys |->
               IF k = "psa_grade"
               THEN [gte |-> IF has("min_grade") THEN {f.min_grade} ELSE {},
                     lte |-> IF has("max_grade") THEN {f.max_grade} ELSE {}]
               ELSE [eq |-> f[k]]]

\* Object.keys(filter).length > 0 ? filter : undefined
SentFilter(filter) == IF DOMAIN filter = {} THEN NoRec ELSE filter

\* Whether a record's metadata meets the conditions ($eq, $gte, $lte) of the
\* filter a query was sent; a query sent no filter takes every record.
Passes(metadata, filter) ==
    filter = NoRec \/
    \A k \in DOMAIN filter :
        IF k = "psa_grade"
        THEN /\ \A lo \in filter[k].gte : metadata.psa_grade >= lo
             /\ \A hi \in filter[k].lte : metadata.psa_grade <= hi
        ELSE metadata[k] = filter[k].eq

\* index.query({vector, topK, includeMetadata, filter}): the answers the
\* index can give, the topK best matches by score; how records of equal
\* score are ordered is the index's choice.
Query(index, vector, topK, filter) ==
    LET ids == {id \in DOMAIN index : Passes(index[id].metadata, filter)}
        score(id) == Cosine(vector, index[id].values)
        n == IF topK < Cardinality(ids) THEN topK ELSE Cardinality(ids)
        ranked == {s \in [1..n -> ids] :
                     /\ \A i, j \in 1..n : i < j =>
                            s[i] # s[j] /\ score(s[i]) >= score(s[j])
                     /\ \A id \in ids \ {s[i] : i \in 1..n} :
                            \A i \in 1..n : score(s[i]) >= score(id)}
    IN {[i \in 1..n |-> [id |-> s[i], score |-> score(s[i]),
                         metadata |-> index[s[i]].metadata]] : s \in ranked}

\* The PSACard rebuilt from a match's metadata.
CardOfMatch(match) ==
    [player_name |-> match.metadata.player_name,
     year |-> match.metadata.year,
     brand |-> match.metadata.brand,
     psa_grade |-> match.metadata.psa_grade,
     cert_number |-> match.metadata.cert_number,
     set_name |-> OrDefault(match.metadata.set_name, Undefined),
     card_number |-> OrDefault(match.metadata.card_number, Undefined)]

\* Variant: a text match fills both scores of its entry.
ProcessTextResults_BothScores(matches) ==
    [i \in DOMAIN matches |->
        [id |-> matches[i].id,
         card |-> CardOfMatch(matches[i]),
         image_path |-> matches[i].metadata.image_path,
         text_score |-> matches[i].score,
         image_score |-> matches[i].score,
         similarity_score |-> 0]]

\* combinedScores: a Map keeps its entries in insertion order, so it is a
\* sequence of entries with distinct ids.
ProcessTextResults(matches) ==
    [i \in DOMAIN matches |->
        [id |-> matches[i].id,
         card |-> CardOfMatch(matches[i]),
         image_path |-> matches[i].metadata.image_path,
         text_score |-> matches[i].score,
         image_score |-> 0,
         similarity_score |-> 0]]

\* Variant: an image match is always added as a new entry.
MergeImageMatch_NoLookup(combined, match) ==
    Append(combined,
           [id |-> match.id,
            card |-> CardOfMatch(match),
            image_path |-> match.metadata.image_path,
            text_score |-> 0,
            image_score |-> match.score,
            similarity_score |-> 0])

\* Variant: an image match takes the place of the entry the text match made.
MergeImageMatch_Replace(combined, match) ==
    LET entry == [id |-> match.id,
                  card |-> CardOfMatch(match),
                  image_path |-> match.metadata.image_path,
                  text_score |-> 0,
                  image_score |-> match.score,
                  similarity_score |-> 0]
    IN IF \E i \in DOMAIN combined : combined[i].id = match.id
       THEN [i \in DOMAIN combined |->
               IF combined[i].id = match.id THEN entry ELSE combined[i]]
       ELSE Append(combined, entry)

MergeImageMatch(combined, match) ==
    IF \E i \in DOMAIN combined : combined[i].id = match.id
    THEN [i \in DOMAIN combined |->
            IF combined[i].id = match.id
            THEN [combined[i] EXCEPT !.image_score = match.score]
            ELSE combined[i]]
    ELSE Append(combined,
                [id |-> match.id,
                 card |-> CardOfMatch(match),
                 image_path |-> match.metadata.image_path,
                 text_score |-> 0,
                 image_score |-> match.score,
                 similarity_score |-> 0])

RECURSIVE ProcessImageResults(_, _)
ProcessImageResults(combined, matches) ==
    IF matches = <<>> THEN combined
    ELSE ProcessImageResults(MergeImageMatch(combined, Head(matches)),
                             Tail(matches))

\* The map hybridSearch has built when both answers are processed.
CombinedScores(textMatches, imageMatches) ==
    ProcessImageResults(ProcessTextResults(textMatches), imageMatches)

\* result.text_score * textWeight + result.image_score * imageWeight
Fuse(entry, textWeight, imageWeight) ==
    [entry EXCEPT !.similarity_score =
        entry.text_score * textWeight + entry.image_score * imageWeight]

\* Variant: the comparator sorts in ascending order.
InsertSorted_Ascending(sorted, x) ==
    LET before == SelectSeq(sorted,
                    LAMBDA y : y.similarity_score <= x.similarity_score)
        after == SelectSeq(sorted,
                    LAMBDA y : y.similarity_score > x.similarity_score)
    IN before \o <<x>> \o after

\* .sort((a, b) => b.similarity_score - a.similarity_score) is stable: an
\* entry goes behind the entries that score as much or more.
InsertSorted(sorted, x) ==
    LET before == SelectSeq(sorted,
                    LAMBDA y : y.similarity_score >= x.similarity_score)
        after == SelectSeq(sorted,
                    LAMBDA y : y.similarity_score < x.similarity_score)
    IN before \o <<x>> \o after

RECURSIVE SortBySimilarity(_, _)
SortBySimilarity(sorted, rest) ==
    IF rest = <<>> THEN sorted
    ELSE SortBySimilarity(InsertSorted(sorted, Head(rest)), Tail(rest))

\* .slice(0, topK), for topK >= 0
Slice(seq, topK) == SubSeq(seq, 1, IF topK < Len(seq) THEN topK ELSE Len(seq))

\* The topK hybridSearch works with.
TopKOf(params) == OrNumber(params, "top_k", DefaultTopK)

\* hybridSearch from the answers of the two indexes on.
hybridSearch(params, textMatches, imageMatches) ==
    LET topK == TopKOf(params)
        textWeight == OrNumber(params, "text_weight", DefaultTextWeight)
        imageWeight == OrNumber(params, "image_weight", DefaultImageWeight)
        combinedScores == CombinedScores(textMatches, imageMatches)
        fused == [i \in DOMAIN combinedScores |->
                    Fuse(combinedScores[i], textWeight, imageWeight)]
    IN Slice(SortBySimilarity(<<>>, fused), topK)

\* Variant: the record is handed out with a non-empty text_embedding.
CardRecordOf_WithVector(match) ==
    [id |-> match.id,
     player_name |-> match.metadata.player_name,
     year |-> match.metadata.year,
     brand |-> match.metadata.brand,
     psa_grade |-> match.metadata.psa_grade,
     cert_number |-> match.metadata.cert_number,
     set_name |-> OrDefault(match.metadata.set_name, Undefined),
     card_number |-> OrDefault(match.metadata.card_number, Undefined),
     image_path |-> match.metadata.image_path,
     text_embedding |-> <<match.score>>,
     image_embedding |-> <<>>,
     created_at |-> match.metadata.created_at]

\* The CardRecord getAllCards builds from a match of the text index.
CardRecordOf(match) ==
    [id |-> match.id,
     player_name |-> match.metadata.player_name,
     year |-> match.metadata.year,
     brand |-> match.metadata.brand,
     psa_grade |-> match.metadata.psa_grade,
     cert_number |-> match.metadata.cert_number,
     set_name |-> OrDefault(match.metadata.set_name, Undefined),
     card_number |-> OrDefault(match.metadata.card_number, Undefined),
     image_path |-> match.metadata.image_path,
     text_embedding |-> <<>>,
     image_embedding |-> <<>>,
     created_at |-> match.metadata.created_at]

ListLimit == 100
dummyVector == <<0, 0>>

getAllCards(matches) == [i \in DOMAIN matches |-> CardRecordOf(matches[i])]

\* Variant: the call resolves although the image index kept the record.
deleteCard_TextOnly(certNumber, e, px, tIdx, iIdx) ==
    IF ~e.PINECONE_API_KEY
    THEN [ok |-> FALSE, message |-> "Failed to delete card",
          textIndex |-> tIdx, imageIndex |-> iIdx]
    ELSE [ok |-> px.text = "ok" /\ px.image = "ok",
          message |-> IF px.text = "ok" /\ px.image = "ok"
                      THEN Undefined ELSE "Failed to delete card",
          textIndex |-> IF px.text = "ok" THEN DeleteOne(tIdx, certNumber)
                        ELSE tIdx,
          imageIndex |-> iIdx]

\* px: what the two deletions do, [text, image], each "ok" or "fails". Both
\* are issued before either is awaited (Promise.all); whichever fails, the
\* caller gets Error("Failed to delete card").
deleteCard(certNumber, e, px, tIdx, iIdx) ==
    IF ~e.PINECONE_API_KEY
    THEN [ok |-> FALSE, message |-> "Failed to delete card",
          textIndex |-> tIdx, imageIndex |-> iIdx]
    ELSE [ok |-> px.text = "ok" /\ px.image = "ok",
          message |-> IF px.text = "ok" /\ px.image = "ok"
                      THEN Undefined ELSE "Failed to delete card",
          textIndex |-> IF px.text = "ok" THEN DeleteOne(tIdx, certNumber)
                        ELSE tIdx,
          imageIndex |-> IF px.image = "ok" THEN DeleteOne(iIdx, certNumber)
                         ELSE iIdx]

----------------------------------------------------------------------------
(* Tool 6: save_to_database *)

\* Variant: the catch block records the error without a final result.
saveToDatabaseFailed_NoResult(s, message) ==
    [currentStep |-> "save_to_database_failed",
     errors |-> Append(s.errors, message),
     next |-> "end"]

\* Variant: a failed save is reported with the kind of a failed validation.
saveToDatabaseFailed_AsValidation(s, message) ==
    [currentStep |-> "save_to_database_failed",
     errors |-> Append(s.errors, message),
     finalResult |-> [success |-> FALSE,
                      error |-> "validation_failed",
                      reason |-> message],
     next |-> "end"]

saveToDatabaseFailed(s, message) ==
    [currentStep |-> "save_to_database_failed",
     errors |-> Append(s.errors, message),
     finalResult |-> [success |-> FALSE,
                      error |-> "save_failed",
                      reason |-> message],
     next |-> "end"]

saveToDatabaseCompleted(s, card, imagePath) ==
    [imagePath |-> imagePath,
     finalResult |-> [success |-> TRUE,
                      card |-> card,
                      description |-> s.description,
                      imagePath |-> imagePath],
     currentStep |-> "save_to_database_completed",
     next |-> "end"]

\* The result carries, besides the update, what the step leaves in the file
\* system and in the two indexes.
saveToDatabase(s, e, fs, px, fileSet, tIdx, iIdx, timestamp) ==
    LET untouched(message) ==
            [update |-> saveToDatabaseFailed(s, message),
             files |-> fileSet, textIndex |-> tIdx, imageIndex |-> iIdx,
             calls |-> {}, faults |-> {}]
    IN IF ~HasValidCard(s) THEN untouched("No valid card data to save")
       ELSE IF s.imageData = NoRec THEN untouched("No image data to save")
       ELSE IF s.textEmbedding = NoSeq \/ s.imageEmbedding = NoSeq
       THEN untouched("Embeddings not generated")
       ELSE
       LET card == s.validationResult.card_data
           img == saveCardImage(card.cert_number, s.imageData, fs, fileSet)
       IN IF ~img.ok
          THEN [update |-> saveToDatabaseFailed(s, "Failed to save card image"),
                files |-> img.files, textIndex |-> tIdx, imageIndex |-> iIdx,
                calls |-> {"saveCardImage"}, faults |-> img.faults]
          ELSE
          LET st == storeCard(card, img.path, s.textEmbedding,
                              s.imageEmbedding, e, px, tIdx, iIdx, timestamp)
          IN [update |->
                IF st.ok
                THEN saveToDatabaseCompleted(s, card, img.path)
                ELSE saveToDatabaseFailed(s,
                        "Failed to store card in vector database"),
              files |-> img.files,
              textIndex |-> st.textIndex, imageIndex |-> st.imageIndex,
              calls |-> {"saveCardImage", "storeCard"} \cup st.calls,
              faults |-> st.faults]

----------------------------------------------------------------------------
(* What the external capabilities can answer *)

CertNumbers == {"12345678", "87654321"}

Reading(cert, withSet) ==
    [is_valid_psa_card |-> TRUE,
     player_name |-> "LeBron James",
     year |-> "2003-04",
     brand |-> "Topps",
     psa_grade |-> 10,
     cert_number |-> cert,
     set_name |-> IF withSet THEN "Chrome" ELSE Undefined,
     card_number |-> IF withSet THEN "#111" ELSE Undefined,
     rejection_reason |-> Undefined]

Without(a, field) ==
    [a EXCEPT ![field] = IF field = "psa_grade" THEN NoGrade ELSE Undefined]

NothingRead ==
    [is_valid_psa_card |-> FALSE,
     player_name |-> Undefined, year |-> Undefined, brand |-> Undefined,
     psa_grade |-> NoGrade, cert_number |-> Undefined,
     set_name |-> Undefined, card_number |-> Undefined,
     rejection_reason |-> Undefined]

CompleteReadings == {Reading("12345678", TRUE), Reading("87654321", FALSE)}
IncompleteReadings ==
    {Without(Reading("12345678", TRUE), f) :
        f \in {"player_name", "year", "brand", "psa_grade", "cert_number"}}
    \cup {[NothingRead EXCEPT !.is_valid_psa_card = TRUE]}
InvalidReadings ==
    {NothingRead,
     [NothingRead EXCEPT
        !.rejection_reason = "No PSA grading label visible in the image"],
     [Reading("12345678", FALSE) EXCEPT !.is_valid_psa_card = FALSE]}

ExtractionOutcomes ==
    {[throws |-> TRUE, message |-> "Gemini request failed", object |-> NoRec]}
    \cup {[throws |-> FALSE, message |-> Undefined, object |-> a] :
            a \in CompleteReadings \cup IncompleteReadings \cup InvalidReadings}

LookupOutcomes ==
    {[throws |-> TRUE, message |-> "Tavily unreachable", summary |-> ""],
     [throws |-> FALSE, message |-> Undefined, summary |-> ""],
     [throws |-> FALSE, message |-> Undefined,
      summary |-> "Fact 1: rookie season"]}

GenerationOutcomes ==
    {[throws |-> TRUE, message |-> "Gemini quota exceeded", text |-> NoSeq],
     [throws |-> FALSE, message |-> Undefined, text |-> NoSeq],
     [throws |-> FALSE, message |-> Undefined,
      text |-> <<"A collector-friendly description">>]}

\* Two-dimensional stand-ins for the 768d and 512d vectors.
TextVectors == {<<1, 0>>}
ImageVectors == {<<0, 1>>}

EmbeddingOutcomes ==
    [textThrows : BOOLEAN, imageThrows : BOOLEAN,
     text : TextVectors, image : ImageVectors, first : {"text", "image"}]

FsOutcomes == {"ok", "mkdir_fails", "write_fails"}
IndexOutcomes == [text : {"ok", "fails"}, image : {"ok", "fails"}]

Envs ==
    [GOOGLE_GENERATIVE_AI_API_KEY : BOOLEAN,
     GOOGLE_API_KEY : {FALSE},
     TAVILY_API_KEY : BOOLEAN,
     PINECONE_API_KEY : BOOLEAN]

Inputs ==
    [imageData : ImageDatas, mimeType : MimeTypes, userHint : UserHints,
     shouldWebSearch : BOOLEAN]

----------------------------------------------------------------------------
(* lib/agent/graph.ts: executePSACardAgent and the compiled graph *)

AgentStateOf(input) ==
    [imageData |-> input.imageData,
     mimeType |-> input.mimeType,
     userHint |-> input.userHint,
     shouldWebSearch |-> input.shouldWebSearch,
     imageBuffer |-> NoRec,
     validationResult |-> NoRec,
     certificationResult |-> NoRec,
     description |-> NoSeq,
     webSearchResults |-> Undefined,
     textEmbedding |-> NoSeq,
     imageEmbedding |-> NoSeq,
     imagePath |-> NoSeq,
     currentStep |-> Undefined,
     errors |-> <<>>,
     next |-> Undefined,
     finalResult |-> NoRec]

NoInput ==
    [imageData |-> NoRec, mimeType |-> Undefined, userHint |-> Undefined,
     shouldWebSearch |-> FALSE]

\* The catch block of executePSACardAgent.
AgentFailed(init, message) ==
    [init EXCEPT !.finalResult = [success |-> FALSE,
                                  error |-> "agent_failed",
                                  reason |-> message],
                 !.errors = <<message>>]

Init ==
    /\ env \in Envs
    /\ pc = "idle"
    /\ state = AgentStateOf(NoInput)
    /\ initialState = AgentStateOf(NoInput)
    /\ runs = 0
    /\ textIndex = <<>>
    /\ imageIndex = <<>>
    /\ files = {}
    /\ trace = <<>>
    /\ calls = {}
    /\ faults = {}
    /\ extraction = NoRec
    /\ response = NoRec
    /\ lastCall = NoRec
    /\ lastStored = <<>>
    /\ replaced = {}
    /\ deleted = {}
    /\ inflight = <<>>

\* executePSACardAgent(input) up to agent.invoke(initialState)
StartRun ==
    /\ pc \in {"idle", "returned"}
    /\ runs < MaxRuns
    /\ \E input \in Inputs :
         /\ state' = AgentStateOf(input)
         /\ initialState' = AgentStateOf(input)
    /\ pc' = "get_card_info"
    /\ runs' = runs + 1
    /\ trace' = <<>>
    /\ calls' = {}
    /\ faults' = {}
    /\ extraction' = NoRec
    /\ UNCHANGED <<env, textIndex, imageIndex, files, response, engineLog>>

\* One node of the graph followed by its conditional edge: the update is
\* merged, routeNext names the next node, and a name that is no node of the
\* graph makes agent.invoke throw into the catch block.
RunNode(node, r) ==
    LET merged == MergeUpdate(state, r.update)
        target == routeNext(merged)
    IN /\ pc = node
       /\ IF target \in Nodes \cup {END}
          THEN state' = merged /\ pc' = target
          ELSE /\ state' = AgentFailed(initialState, "Invalid route")
               /\ pc' = END
       /\ trace' = Append(trace, node)
       /\ calls' = calls \cup r.calls
       /\ faults' = faults \cup r.faults
       /\ UNCHANGED <<env, initialState, runs, response, engineLog>>

GetCardInfo ==
    /\ RunNode("get_card_info", getCardInfo(state))
    /\ UNCHANGED <<textIndex, imageIndex, files, extraction>>

ValidateNBACard ==
    \E out \in ExtractionOutcomes :
        LET r == validateNBACard(state, env, out) IN
        /\ RunNode("validate_nba_card", r)
        /\ extraction' = IF "generateObject" \in r.calls /\ ~out.throws
                         THEN out.object ELSE NoRec
        /\ UNCHANGED <<textIndex, imageIndex, files>>

CertifyCard ==
    /\ RunNode("certify_card", certifyCard(state))
    /\ UNCHANGED <<textIndex, imageIndex, files, extraction>>

DescribeCard ==
    \E lookup \in LookupOutcomes, generation \in GenerationOutcomes :
        /\ RunNode("describe_card", describeCard(state, env, lookup, generation))
        /\ UNCHANGED <<textIndex, imageIndex, files, extraction>>

GenerateEmbeddings ==
    \E out \in EmbeddingOutcomes :
        /\ RunNode("generate_embeddings", generateEmbeddings(state, out))
        /\ UNCHANGED <<textIndex, imageIndex, files, extraction>>

SaveToDatabase ==
    \E fs \in FsOutcomes, px \in IndexOutcomes :
        LET r == saveToDatabase(state, env, fs, px, files, textIndex,
                                imageIndex, runs)
        IN /\ RunNode("save_to_database", r)
           /\ files' = r.files
           /\ textIndex' = r.textIndex
           /\ imageIndex' = r.imageIndex
           /\ UNCHANGED extraction

\* agent.invoke resolves and executePSACardAgent returns the state.
Return ==
    /\ pc = END
    /\ pc' = "returned"
    /\ UNCHANGED <<env, state, initialState, runs, textIndex, imageIndex,
                   files, trace, calls, faults, extraction, response,
                   engineLog>>

Step ==
    \/ GetCardInfo
    \/ ValidateNBACard
    \/ CertifyCard
    \/ DescribeCard
    \/ GenerateEmbeddings
    \/ SaveToDatabase
    \/ Return

Next == StartRun \/ Step

Spec == Init /\ [][Next]_vars

\* Every await of a run resolves or rejects (each capability call is bounded
\* by a deadline), so a run that has started keeps taking steps.
FairSpec == Spec /\ WF_vars(Step)

----------------------------------------------------------------------------
(* app/api/agent/route.ts: POST *)

\* The request bodies: NoRec is a body that is no JSON, the others carry the
\* four fields the handler destructures.
Bodies ==
    {NoRec} \cup [image : ImageDatas, mimeType : MimeTypes,
                  userHint : UserHints, shouldWebSearch : BOOLEAN]

Pending == [pending |-> TRUE]

\* finalState.finalResult?.reason || "Failed to process card"
ReasonOf(finalState) ==
    IF finalState.finalResult = NoRec THEN "Failed to process card"
    ELSE OrDefault(finalState.finalResult.reason, "Failed to process card")

FailureResponse(finalState) ==
    [status |-> 200,
     error |-> "image_not_supported",
     reason |-> ReasonOf(finalState)]

SuccessResponse(finalState) ==
    [status |-> 200,
     success |-> TRUE,
     data |-> [card |-> finalState.finalResult.card,
               description |-> finalState.description,
               image_path |-> finalState.imagePath,
               cert_url |-> CertUrlOf(finalState)]]

\* The response built from the state executePSACardAgent returned.
AgentResponse(finalState) ==
    IF finalState.finalResult # NoRec /\ finalState.finalResult.success
    THEN SuccessResponse(finalState)
    ELSE FailureResponse(finalState)

\* The handler up to the call of executePSACardAgent: a body that cannot be
\* parsed, lacks a field or meets an unconfigured key is answered at once.
POST ==
    /\ pc \in {"idle", "responded"}
    /\ runs < MaxRuns
    /\ runs' = runs + 1
    /\ trace' = <<>>
    /\ calls' = {}
    /\ faults' = {}
    /\ extraction' = NoRec
    /\ \E body \in Bodies :
         LET answer(r) == /\ response' = r
                          /\ pc' = "responded"
                          /\ state' = AgentStateOf(NoInput)
                          /\ initialState' = AgentStateOf(NoInput)
         IN IF body = NoRec
            THEN answer([status |-> 500, error |-> "Internal server error",
                         message |-> "Unexpected token"])
            ELSE IF body.image = NoRec
            THEN answer([status |-> 400, error |-> "No image provided"])
            ELSE IF body.mimeType = Undefined
            THEN answer([status |-> 400, error |-> "No mimeType provided"])
            ELSE IF ~env.GOOGLE_GENERATIVE_AI_API_KEY
            THEN answer([status |-> 500,
                         error |-> "Google API key not configured"])
            ELSE LET input == [imageData |-> body.image,
                               mimeType |-> body.mimeType,
                               userHint |-> body.userHint,
                               shouldWebSearch |-> body.shouldWebSearch]
                 IN /\ state' = AgentStateOf(input)
                    /\ initialState' = AgentStateOf(input)
                    /\ pc' = "get_card_info"
                    /\ response' = Pending
    /\ UNCHANGED <<env, textIndex, imageIndex, files, engineLog>>

\* The handler after executePSACardAgent has returned.
Respond ==
    /\ pc = "returned"
    /\ response = Pending
    /\ response' = AgentResponse(state)
    /\ pc' = "responded"
    /\ UNCHANGED <<env, state, initialState, runs, textIndex, imageIndex,
                   files, trace, calls, faults, extraction, engineLog>>

RouteNext == POST \/ Step \/ Respond

RouteSpec == Init /\ [][RouteNext]_vars

----------------------------------------------------------------------------
(* app/api/upload/route.ts: POST, the other caller of storeCard *)

\* The cards a request body can carry: none, one with nothing but a
\* certification number, a complete one.
UploadCards ==
    {NoRec,
     [CardDataOf(NothingRead) EXCEPT !.cert_number = "12345678"],
     CardDataOf(Reading("87654321", TRUE))}

UploadBodies ==
    [card : UploadCards,
     imageData : {NoRec,
                  [prefix |-> "", bytes |-> 1],
                  [prefix |-> "data:image/jpeg;base64", bytes |-> 1]}]

UploadFailed(message, fileSet, tIdx, iIdx) ==
    [response |-> [status |-> 500,
                   body |-> [error |-> "upload_failed", message |-> message]],
     files |-> fileSet, textIndex |-> tIdx, imageIndex |-> iIdx]

\* out: what the two embedding calls do; fs, px as in save_to_database.
upload(body, e, out, fs, px, fileSet, tIdx, iIdx, timestamp) ==
    IF body.card = NoRec \/ Falsy(body.card.cert_number)
    THEN [response |-> [status |-> 400,
                        body |-> [error |-> "Invalid card data: missing cert_number"]],
          files |-> fileSet, textIndex |-> tIdx, imageIndex |-> iIdx]
    ELSE IF body.imageData = NoRec
    THEN [response |-> [status |-> 400,
                        body |-> [error |-> "Invalid request: missing imageData"]],
          files |-> fileSet, textIndex |-> tIdx, imageIndex |-> iIdx]
    ELSE IF out.textThrows
    THEN UploadFailed("Failed to generate text embedding", fileSet, tIdx, iIdx)
    ELSE IF ImageExtension(body.imageData) = Undefined
    THEN UploadFailed("Failed to convert image data", fileSet, tIdx, iIdx)
    ELSE IF out.imageThrows
    THEN UploadFailed("Failed to generate image embedding", fileSet, tIdx, iIdx)
    ELSE
    LET img == saveCardImage(body.card.cert_number, body.imageData, fs, fileSet)
    IN IF ~img.ok
       THEN UploadFailed("Failed to save card image", img.files, tIdx, iIdx)
       ELSE
       LET st == storeCard(body.card, img.path, out.text, out.image, e, px,
                           tIdx, iIdx, timestamp)
       IN IF ~st.ok
          THEN UploadFailed("Failed to store card in vector database",
                            img.files, st.textIndex, st.imageIndex)
          ELSE [response |-> [status |-> 200,
                              body |-> [success |-> TRUE,
                                        message |-> "Card uploaded successfully",
                                        card |-> body.card,
                                        image_path |-> img.path]],
                files |-> img.files,
                textIndex |-> st.textIndex, imageIndex |-> st.imageIndex]

\* One request to /api/upload, between the runs of the agent.
Upload ==
    /\ pc \in {"idle", "returned"}
    /\ lastCall = NoRec
    /\ \E body \in UploadBodies, fs \in FsOutcomes, px \in IndexOutcomes,
          out \in {o \in EmbeddingOutcomes : o.first = "text"} :
         LET r == upload(body, env, out, fs, px, files, textIndex,
                         imageIndex, runs)
         IN /\ files' = r.files
            /\ textIndex' = r.textIndex
            /\ imageIndex' = r.imageIndex
            /\ lastCall' = [op |-> "upload", response |-> r.response]
    /\ UNCHANGED <<env, pc, state, initialState, runs, trace, calls, faults,
                   extraction, response, lastStored, replaced, deleted,
                   inflight>>

AppNext == StartRun \/ Step \/ Upload

AppSpec == Init /\ [][AppNext]_vars

----------------------------------------------------------------------------
(* The tools on their own: one tool applied to any state of the AgentState
   type, also the states the graph never hands to it. *)

ToolValidationResults ==
    {NoRec,
     validateRejected(NothingRead).validationResult,
     validateIncomplete.validationResult,
     validateAccepted(Reading("12345678", TRUE)).validationResult,
     validateAccepted(Reading("87654321", FALSE)).validationResult}

ToolCertificationResults ==
    {NoRec,
     [is_certified |-> TRUE, cert_url |-> CertUrl("12345678")],
     [is_certified |-> FALSE, error |-> "No valid card data to certify"]}

ToolStates ==
    {[AgentStateOf([imageData |-> [prefix |-> "data:image/jpeg;base64",
                                   bytes |-> maxSize],
                    mimeType |-> "image/jpeg",
                    userHint |-> Undefined,
                    shouldWebSearch |-> w])
        EXCEPT !.imageBuffer = [length |-> maxSize],
               !.validationResult = v,
               !.certificationResult = c,
               !.webSearchResults = f,
               !.errors = errs] :
        w \in BOOLEAN, v \in ToolValidationResults,
        c \in ToolCertificationResults,
        f \in {Undefined, "Fact 1: earlier search"},
        errs \in {<<>>, <<"earlier warning">>}}

ToolInit ==
    /\ env \in Envs
    /\ pc = "tool"
    /\ state \in ToolStates
    /\ initialState = state
    /\ runs = 0
    /\ textIndex = <<>>
    /\ imageIndex = <<>>
    /\ files = {}
    /\ trace = <<>>
    /\ calls = {}
    /\ faults = {}
    /\ extraction = NoRec
    /\ response = NoRec
    /\ lastCall = NoRec
    /\ lastStored = <<>>
    /\ replaced = {}
    /\ deleted = {}
    /\ inflight = <<>>

\* The tool's update merged into the state it was given (kept in initialState).
ApplyTool(node, r) ==
    /\ pc = "tool"
    /\ pc' = "applied"
    /\ state' = MergeUpdate(state, r.update)
    /\ trace' = <<node>>
    /\ calls' = r.calls
    /\ faults' = r.faults
    /\ UNCHANGED <<env, initialState, runs, textIndex, imageIndex, files,
                   extraction, response, engineLog>>

ApplyCertifyCard == ApplyTool("certify_card", certifyCard(state))

ApplyDescribeCard ==
    \E lookup \in LookupOutcomes, generation \in GenerationOutcomes :
        ApplyTool("describe_card", describeCard(state, env, lookup, generation))

ToolNext == ApplyCertifyCard \/ ApplyDescribeCard

ToolSpec == ToolInit /\ [][ToolNext]_vars

----------------------------------------------------------------------------
(* The two optional tools, generate_synthetic_document and
   generate_audio_narration, which no node of the compiled graph runs: each
   applied to any state, and the second to the state the first returns. *)

\* The catch block of generateSyntheticDocument.
syntheticDocumentFailed(s, message) ==
    [currentStep |-> "generate_synthetic_document_failed",
     errors |-> Append(s.errors, message),
     next |-> "generate_audio_narration"]

\* synthetic: the card generateSyntheticCardData draws; edit: what the image
\* model answers, "image", "no_image" or "throws"; fs: what the file system
\* does. Without an edited image a metadata file is written instead.
generateSyntheticDocument(s, e, synthetic, edit, fs, fileSet) ==
    LET done(update, written, called, failed) ==
            [update |-> update, files |-> fileSet \cup written,
             calls |-> called, faults |-> failed]
        skipped == [currentStep |-> "generate_synthetic_document_skipped",
                    next |-> "generate_audio_narration"]
    IN IF ~HasValidCard(s) THEN done(skipped, {}, {}, {})
       ELSE IF s.imageData = NoRec THEN done(skipped, {}, {}, {})
       ELSE IF ~(e.GOOGLE_GENERATIVE_AI_API_KEY \/ e.GOOGLE_API_KEY)
       THEN done(syntheticDocumentFailed(s,
                    "Synthetic document generation failed: Google Generative AI key missing. Set GOOGLE_GENERATIVE_AI_API_KEY."),
                 {}, {}, {})
       ELSE IF fs = "mkdir_fails"
       THEN done(syntheticDocumentFailed(s,
                    "Synthetic document generation failed: EACCES"),
                 {}, {}, {"fs"})
       ELSE IF fs = "write_fails"
       THEN done(syntheticDocumentFailed(s,
                    "Synthetic document generation failed: EACCES"),
                 {}, {"generateContent"},
                 {"fs"} \cup (IF edit = "throws" THEN {"generateContent"}
                              ELSE {}))
       ELSE
       LET cert == s.validationResult.card_data.cert_number
           path == IF edit = "image"
                   THEN <<"/synthetic/", cert, "_synthetic.png">>
                   ELSE <<"/synthetic/", cert, "_synthetic_metadata.json">>
       IN done([syntheticDocumentPath |-> path,
                syntheticCardData |-> synthetic,
                currentStep |-> "generate_synthetic_document_completed",
                next |-> "generate_audio_narration"],
               {path}, {"generateContent"},
               IF edit = "throws" THEN {"generateContent"} ELSE {})

\* Variant: a failed narration ends the run.
audioNarrationFailed_Fatal(s, message) ==
    [currentStep |-> "generate_audio_narration_failed",
     errors |-> Append(s.errors, message),
     finalResult |-> [success |-> FALSE, error |-> "audio_failed",
                      reason |-> message],
     next |-> "end"]

\* The two failure returns of generateAudioNarration.
audioNarrationFailed(s, message) ==
    [currentStep |-> "generate_audio_narration_failed",
     errors |-> Append(s.errors, message),
     next |-> "generate_embeddings"]

\* credentials: whether GOOGLE_APPLICATION_CREDENTIALS is set; tts: what the
\* speech client does, "audio", "no_audio", "client_fails" or "throws".
generateAudioNarration(s, e, credentials, tts, fs, fileSet) ==
    LET done(update, written, called, failed) ==
            [update |-> update, files |-> fileSet \cup written,
             calls |-> called, faults |-> failed]
        skipped == [currentStep |-> "generate_audio_narration_skipped",
                    next |-> "generate_embeddings"]
        card == CardDataOfState(s)
    IN IF s.description = NoSeq THEN done(skipped, {}, {}, {})
       ELSE IF card = NoRec \/ Falsy(card.cert_number)
       THEN done(skipped, {}, {}, {})
       ELSE IF ~(e.GOOGLE_GENERATIVE_AI_API_KEY \/ e.GOOGLE_API_KEY)
               /\ ~credentials
       THEN done(skipped @@
                 [errors |-> Append(s.errors,
                    "Audio narration skipped: Google Cloud credentials not configured")],
                 {}, {}, {})
       ELSE IF tts = "client_fails"
       THEN done(audioNarrationFailed(s,
                    "TTS client initialization failed: Could not load credentials"),
                 {}, {"TextToSpeechClient"}, {"TextToSpeechClient"})
       ELSE IF tts = "throws"
       THEN done(audioNarrationFailed(s,
                    "Audio narration generation failed: TTS unavailable"),
                 {}, {"TextToSpeechClient", "synthesizeSpeech"},
                 {"synthesizeSpeech"})
       ELSE IF tts = "no_audio"
       THEN done(audioNarrationFailed(s,
                    "Audio narration generation failed: No audio content received from TTS service"),
                 {}, {"TextToSpeechClient", "synthesizeSpeech"}, {})
       ELSE IF fs # "ok"
       THEN done(audioNarrationFailed(s,
                    "Audio narration generation failed: EACCES"),
                 {}, {"TextToSpeechClient", "synthesizeSpeech"}, {"fs"})
       ELSE done([audioNarrationPath |-> <<"/audio/", card.cert_number, ".mp3">>,
                  currentStep |-> "generate_audio_narration_completed",
                  next |-> "generate_embeddings"],
                 {<<"/audio/", card.cert_number, ".mp3">>},
                 {"TextToSpeechClient", "synthesizeSpeech"}, {})

\* The states of the tools, with and without a description, an image and an
\* earlier result.
SideInit ==
    /\ env \in Envs
    /\ pc \in {"generate_synthetic_document", "generate_audio_narration"}
    /\ \E s \in ToolStates, d \in {NoSeq, <<"A collector-friendly description">>},
          img \in BOOLEAN :
         state = [s EXCEPT !.description = d,
                           !.imageData = IF img THEN s.imageData ELSE NoRec]
    /\ initialState = state
    /\ runs = 0
    /\ textIndex = <<>>
    /\ imageIndex = <<>>
    /\ files = {}
    /\ trace = <<>>
    /\ calls = {}
    /\ faults = {}
    /\ extraction = NoRec
    /\ response = NoRec
    /\ lastCall = NoRec
    /\ lastStored = <<>>
    /\ replaced = {}
    /\ deleted = {}
    /\ inflight = <<>>

\* The update of the tool merged into the state, and the step it names.
ApplySide(node, r) ==
    /\ pc = node
    /\ state' = MergeUpdate(state, r.update)
    /\ pc' = routeNext(state')
    /\ trace' = Append(trace, node)
    /\ calls' = r.calls
    /\ faults' = r.faults
    /\ files' = r.files
    /\ lastCall' = [op |-> node, before |-> state, update |-> r.update]
    /\ UNCHANGED <<env, initialState, runs, textIndex, imageIndex,
                   extraction, response, lastStored, replaced, deleted,
                   inflight>>

GenerateSyntheticDocument ==
    \E synthetic \in {CardDataOf(Reading("87654321", FALSE))},
       edit \in {"image", "no_image", "throws"}, fs \in FsOutcomes :
        ApplySide("generate_synthetic_document",
                  generateSyntheticDocument(state, env, synthetic, edit, fs,
                                            files))

GenerateAudioNarration ==
    \E credentials \in BOOLEAN, fs \in FsOutcomes,
       tts \in {"audio", "no_audio", "client_fails", "throws"} :
        ApplySide("generate_audio_narration",
                  generateAudioNarration(state, env, credentials, tts, fs,
                                         files))

SideNext == GenerateSyntheticDocument \/ GenerateAudioNarration

SideSpec == SideInit /\ [][SideNext]_vars

----------------------------------------------------------------------------
(* lib/pinecone.ts called directly: storeCard, hybridSearch, getAllCards and
   deleteCard in any order, on the two indexes they share. *)

EngineCard(cert, player, grade) ==
    [CardDataOf(Reading(cert, TRUE)) EXCEPT !.player_name = player,
                                            !.psa_grade = grade]

EngineRecord(cert, player, grade, text, image) ==
    [card |-> EngineCard(cert, player, grade),
     imagePath |-> <<"/cards/", cert, ".", "jpeg">>,
     text |-> text,
     image |-> image]

\* Two records for one certification number and one for another, which has
\* the vectors of the first, so that scores tie.
EngineRecords ==
    {EngineRecord("12345678", "LeBron James", 10, <<1, 0>>, <<1, 0>>),
     EngineRecord("12345678", "Michael Jordan", 9, <<1, 1>>, <<0, 1>>),
     EngineRecord("87654321", "LeBron James", 10, <<1, 0>>, <<1, 0>>)}

EngineIds == {r.card.cert_number : r \in EngineRecords}

\* The query vectors of a search, one pair for each pair a record carries.
EngineQueryVectors ==
    {[text |-> r.text, image |-> r.image] : r \in EngineRecords}

\* HybridSearchParams: every field but query is optional.
EngineSearchParams ==
    {[query |-> "rookie"],
     [query |-> "rookie", top_k |-> 1],
     [query |-> "rookie", top_k |-> 1, text_weight |-> 0 - 10,
      image_weight |-> 10],
     [query |-> "rookie", top_k |-> 2,
      filters |-> [player_name |-> "Michael Jordan"]]}

\* What the index queries of one call do.
QueryOutcomes == {"ok", "fails"}

EngineEnvs ==
    [GOOGLE_GENERATIVE_AI_API_KEY : {FALSE},
     GOOGLE_API_KEY : {FALSE},
     TAVILY_API_KEY : {FALSE},
     PINECONE_API_KEY : BOOLEAN]

EngineInit ==
    /\ env \in EngineEnvs
    /\ pc = "engine"
    /\ state = AgentStateOf(NoInput)
    /\ initialState = AgentStateOf(NoInput)
    /\ runs = 0
    /\ textIndex = <<>>
    /\ imageIndex = <<>>
    /\ files = {}
    /\ trace = <<>>
    /\ calls = {}
    /\ faults = {}
    /\ extraction = NoRec
    /\ response = NoRec
    /\ lastCall = NoRec
    /\ lastStored = <<>>
    /\ replaced = {}
    /\ deleted = {}
    /\ inflight = <<>>

\* The record a successful storeCard has just stored, NoRec after any other
\* call.
JustStored ==
    IF lastCall # NoRec /\ lastCall.op = "storeCard" /\ lastCall.ok
    THEN lastCall.record
    ELSE NoRec

Forget(log, id) == [k \in DOMAIN log \ {id} |-> log[k]]

StoreCard ==
    \E rec \in EngineRecords, px \in IndexOutcomes :
        LET id == rec.card.cert_number
            st == storeCard(rec.card, rec.imagePath, rec.text, rec.image,
                            env, px, textIndex, imageIndex, runs)
        IN /\ textIndex' = st.textIndex
           /\ imageIndex' = st.imageIndex
           /\ lastCall' = [op |-> "storeCard", id |-> id, record |-> rec,
                            ok |-> st.ok,
                            message |-> IF st.ok THEN Undefined
                                        ELSE "Failed to store card in vector database",
                            calls |-> st.calls,
                            faults |-> st.faults]
           /\ lastStored' = IF st.ok
                             THEN [k \in DOMAIN lastStored \cup {id} |->
                                     IF k = id THEN rec ELSE lastStored[k]]
                             ELSE Forget(lastStored, id)
           /\ replaced' = IF /\ st.ok
                              /\ id \in DOMAIN lastStored
                              /\ lastStored[id].card # rec.card
                           THEN replaced \cup {id}
                           ELSE replaced \ {id}
           /\ deleted' = deleted \ {id}
           /\ UNCHANGED <<env, pc, state, initialState, runs, files, trace,
                          calls, faults, extraction, response, inflight>>

\* One call of hybridSearch: it throws when the client cannot be built or a
\* query fails, and answers from what the two indexes return otherwise.
SearchCall(paramSet, vectorSet) ==
    \E qx \in QueryOutcomes :
        IF ~env.PINECONE_API_KEY \/ qx = "fails"
        THEN lastCall' = [op |-> "hybridSearch", ok |-> FALSE,
                          message |-> "Failed to perform hybrid search"]
        ELSE \E params \in paramSet, q \in vectorSet :
              LET filter == SentFilter(BuildFilter(params))
                  topK == TopKOf(params)
              IN \E textMatches \in Query(textIndex, q.text, topK * 2, filter),
                    imageMatches \in Query(imageIndex, q.image, topK * 2, filter) :
                     lastCall' = [op |-> "hybridSearch", ok |-> TRUE,
                                  message |-> Undefined,
                                  params |-> params,
                                  textQuery |-> q.text,
                                  imageQuery |-> q.image,
                                  after |-> JustStored,
                                  textFilter |-> filter,
                                  imageFilter |-> filter,
                                  textMatches |-> textMatches,
                                  imageMatches |-> imageMatches,
                                  merged |-> CombinedScores(textMatches,
                                                            imageMatches),
                                  results |-> hybridSearch(params, textMatches,
                                                           imageMatches)]

HybridSearch ==
    /\ SearchCall(EngineSearchParams, EngineQueryVectors)
    /\ UNCHANGED <<env, pc, state, initialState, runs, textIndex,
                   imageIndex, files, trace, calls, faults, extraction,
                   response, lastStored, replaced, deleted, inflight>>

GetAllCards ==
    \E qx \in QueryOutcomes :
        /\ IF ~env.PINECONE_API_KEY \/ qx = "fails"
           THEN lastCall' = [op |-> "getAllCards", ok |-> FALSE,
                             message |-> "Failed to fetch cards",
                             cards |-> <<>>]
           ELSE \E matches \in Query(textIndex, dummyVector, ListLimit, NoRec) :
                    lastCall' = [op |-> "getAllCards", ok |-> TRUE,
                                 message |-> Undefined,
                                 queried |-> {"textIndex"},
                                 topK |-> ListLimit,
                                 cards |-> getAllCards(matches)]
        /\ UNCHANGED <<env, pc, state, initialState, runs, textIndex,
                       imageIndex, files, trace, calls, faults, extraction,
                       response, lastStored, replaced, deleted, inflight>>

DeleteCard ==
    \E id \in EngineIds, px \in IndexOutcomes :
        LET d == deleteCard(id, env, px, textIndex, imageIndex)
        IN /\ textIndex' = d.textIndex
           /\ imageIndex' = d.imageIndex
           /\ lastCall' = [op |-> "deleteCard", id |-> id, ok |-> d.ok,
                            message |-> d.message,
                            outcome |-> IF env.PINECONE_API_KEY THEN px
                                        ELSE [text |-> "fails", image |-> "fails"]]
           /\ lastStored' = Forget(lastStored, id)
           /\ replaced' = replaced \ {id}
           /\ deleted' = IF d.ok THEN deleted \cup {id} ELSE deleted
           /\ UNCHANGED <<env, pc, state, initialState, runs, files, trace,
                          calls, faults, extraction, response, inflight>>

EngineNext == StoreCard \/ HybridSearch \/ GetAllCards \/ DeleteCard

EngineSpec == EngineInit /\ [][EngineNext]_vars

----------------------------------------------------------------------------
(* hybridSearch on its own: one call, on any content the two indexes can
   have, also the content a half-failed write leaves behind. *)

SearchRecords ==
    {EngineRecord("12345678", "LeBron James", 10, <<1, 0>>, <<1, 0>>),
     EngineRecord("12345678", "Michael Jordan", 9, <<1, 0>>, <<0, 1>>),
     EngineRecord("87654321", "Kobe Bryant", 8, <<1, 1>>, <<1, 0>>),
     EngineRecord("55555555", "LeBron James", 10, <<1, 0>>, <<1, 0>>)}

SearchIds == {r.card.cert_number : r \in SearchRecords}

\* What index.upsert leaves in an index for a record; side is "text" or
\* "image".
EntryOf(rec, side) ==
    [values |-> rec[side],
     metadata |-> Metadata(rec.card, rec.imagePath, 0)]

\* The contents of one index: at most one record for an identifier.
IndexContents(side) ==
    LET picks == UNION {{f \in [S -> SearchRecords] :
                           \A id \in S : f[id].card.cert_number = id} :
                        S \in SUBSET SearchIds}
    IN {[id \in DOMAIN f |-> EntryOf(f[id], side)] : f \in picks}

\* HybridSearchParams: every field but query is optional.
SearchParams ==
    {[query |-> "rookie"],
     [query |-> "rookie", top_k |-> 0],
     [query |-> "rookie", top_k |-> 1],
     [query |-> "rookie", top_k |-> 2, text_weight |-> 10, image_weight |-> 0],
     [query |-> "rookie", text_weight |-> 0, image_weight |-> 10],
     [query |-> "rookie", text_weight |-> 3, image_weight |-> 3],
     [query |-> "rookie", top_k |-> 1, text_weight |-> 0 - 10,
      image_weight |-> 10],
     [query |-> "rookie", top_k |-> 1,
      filters |-> [player_name |-> "Michael Jordan"]],
     [query |-> "rookie", filters |-> [min_grade |-> 9, max_grade |-> 9]],
     [query |-> "rookie", filters |-> [min_grade |-> 9]],
     [query |-> "rookie",
      filters |-> [year |-> "2003-04", brand |-> "Topps", max_grade |-> 9]],
     [query |-> "rookie", filters |-> [player_name |-> "", brand |-> "Fleer"]],
     [query |-> "rookie", filters |-> <<>>]}

SearchQueryVectors ==
    {[text |-> r.text, image |-> r.image] : r \in SearchRecords}

SearchInit ==
    /\ env \in EngineEnvs
    /\ pc = "search"
    /\ state = AgentStateOf(NoInput)
    /\ initialState = AgentStateOf(NoInput)
    /\ runs = 0
    /\ textIndex \in IndexContents("text")
    /\ imageIndex \in IndexContents("image")
    /\ files = {}
    /\ trace = <<>>
    /\ calls = {}
    /\ faults = {}
    /\ extraction = NoRec
    /\ response = NoRec
    /\ lastCall = NoRec
    /\ lastStored = <<>>
    /\ replaced = {}
    /\ deleted = {}
    /\ inflight = <<>>

ApplyHybridSearch ==
    /\ pc = "search"
    /\ pc' = "searched"
    /\ SearchCall(SearchParams, SearchQueryVectors)
    /\ UNCHANGED <<env, state, initialState, runs, textIndex, imageIndex,
                   files, trace, calls, faults, extraction, response,
                   lastStored, replaced, deleted, inflight>>

SearchNext == ApplyHybridSearch

SearchSpec == SearchInit /\ [][SearchNext]_vars

----------------------------------------------------------------------------
(* storeCard called by two callers at once. A call runs up to an await,
   other calls run while the awaited upsert is pending, and the call goes on
   when the upsert has settled; hybridSearch reads what the indexes hold at
   that moment. *)

Callers == {1, 2}

\* storeCard up to its first await: without a client it throws before any
\* write, with one the text-index upsert is issued.
StoreCall(rec, e, timestamp) ==
    [op |-> "storeCard",
     id |-> rec.card.cert_number,
     record |-> rec,
     metadata |-> Metadata(rec.card, rec.imagePath, timestamp),
     at |-> IF e.PINECONE_API_KEY THEN "textIndex.upsert" ELSE "threw",
     failed |-> IF e.PINECONE_API_KEY THEN Undefined ELSE "storeCard"]

\* await textIndex.upsert(...): the call goes on to the image-index upsert,
\* or into the catch block.
AfterTextUpsert(call, outcome) ==
    IF outcome = "ok"
    THEN [call EXCEPT !.at = "imageIndex.upsert"]
    ELSE [call EXCEPT !.at = "threw", !.failed = "textIndex.upsert"]

\* Variant: storeCard returns whatever the image-index upsert did.
AfterImageUpsert_Returns(call, outcome) == [call EXCEPT !.at = "returned"]

\* await imageIndex.upsert(...): the call returns, or goes into the catch
\* block, which writes nothing back.
AfterImageUpsert(call, outcome) ==
    IF outcome = "ok"
    THEN [call EXCEPT !.at = "returned"]
    ELSE [call EXCEPT !.at = "threw", !.failed = "imageIndex.upsert"]

\* What an upsert that settles with the outcome has made of the index.
Settled(index, call, values, outcome) ==
    IF outcome = "ok" THEN Upsert(index, call.id, values, call.metadata)
    ELSE index

Begun(caller, call) ==
    [k \in DOMAIN inflight \cup {caller} |->
        IF k = caller THEN call ELSE inflight[k]]

RaceInit ==
    /\ env \in EngineEnvs
    /\ pc = "race"
    /\ state = AgentStateOf(NoInput)
    /\ initialState = AgentStateOf(NoInput)
    /\ runs = 0
    /\ textIndex = <<>>
    /\ imageIndex = <<>>
    /\ files = {}
    /\ trace = <<>>
    /\ calls = {}
    /\ faults = {}
    /\ extraction = NoRec
    /\ response = NoRec
    /\ lastCall = NoRec
    /\ lastStored = <<>>
    /\ replaced = {}
    /\ deleted = {}
    /\ inflight = <<>>

BeginStoreCard ==
    \E caller \in Callers \ DOMAIN inflight, rec \in EngineRecords :
        /\ inflight' = Begun(caller, StoreCall(rec, env, runs))
        /\ UNCHANGED <<env, pc, state, initialState, runs, textIndex,
                       imageIndex, files, trace, calls, faults, extraction,
                       response, lastCall, lastStored, replaced, deleted>>

TextUpsertSettles ==
    \E caller \in DOMAIN inflight, outcome \in {"ok", "fails"} :
        LET call == inflight[caller]
        IN /\ call.at = "textIndex.upsert"
           /\ textIndex' = Settled(textIndex, call, call.record.text, outcome)
           /\ inflight' = Begun(caller, AfterTextUpsert(call, outcome))
           /\ UNCHANGED <<env, pc, state, initialState, runs, imageIndex,
                          files, trace, calls, faults, extraction, response,
                          lastCall, lastStored, replaced, deleted>>

ImageUpsertSettles ==
    \E caller \in DOMAIN inflight, outcome \in {"ok", "fails"} :
        LET call == inflight[caller]
        IN /\ call.at = "imageIndex.upsert"
           /\ imageIndex' = Settled(imageIndex, call, call.record.image,
                                     outcome)
           /\ inflight' = Begun(caller, AfterImageUpsert(call, outcome))
           /\ UNCHANGED <<env, pc, state, initialState, runs, textIndex,
                          files, trace, calls, faults, extraction, response,
                          lastCall, lastStored, replaced, deleted>>

RaceSearchParams == {[query |-> "rookie"]}

SearchDuringStores ==
    /\ SearchCall(RaceSearchParams, EngineQueryVectors)
    /\ UNCHANGED <<env, pc, state, initialState, runs, textIndex,
                   imageIndex, files, trace, calls, faults, extraction,
                   response, lastStored, replaced, deleted, inflight>>

RaceNext ==
    \/ BeginStoreCard
    \/ TextUpsertSettles
    \/ ImageUpsertSettles
    \/ SearchDuringStores

RaceSpec == RaceInit /\ [][RaceNext]_vars

----------------------------------------------------------------------------
(* executePSACardAgent called by two callers at once, each with the image of
   another card. A run goes from one await to the next: a node of the graph
   is one step, and save_to_database is three, up to each upsert that
   storeCard awaits. *)

\* The certification number on the label of each caller's image.
CertOf(caller) == IF caller = 1 THEN "12345678" ELSE "87654321"

RunInput ==
    [imageData |-> [prefix |-> "data:image/jpeg;base64", bytes |-> 1],
     mimeType |-> "image/jpeg",
     userHint |-> Undefined,
     shouldWebSearch |-> FALSE]

RunEnvs == {e \in Envs : e.GOOGLE_GENERATIVE_AI_API_KEY /\ ~e.TAVILY_API_KEY}

\* What the capabilities a step awaits can answer to the caller.
Answers(caller, step) ==
    CASE step = "validate_nba_card" ->
           {[throws |-> TRUE, message |-> "Gemini request failed",
             object |-> NoRec],
            [throws |-> FALSE, message |-> Undefined,
             object |-> Reading(CertOf(caller), TRUE)]}
      [] step = "describe_card" ->
           {[lookup |-> [throws |-> FALSE, message |-> Undefined,
                         summary |-> ""],
             generation |-> [throws |-> FALSE, message |-> Undefined,
                             text |-> <<"A collector-friendly description">>]]}
      [] step = "generate_embeddings" ->
           {o \in EmbeddingOutcomes : ~o.imageThrows /\ o.first = "text"}
      [] step = "save_to_database" -> {"ok", "write_fails"}
      [] step \in {"textIndex.upsert", "imageIndex.upsert"} -> {"ok", "fails"}
      [] OTHER -> {"none"}

RunSteps == Nodes \cup {"textIndex.upsert", "imageIndex.upsert"}

\* Before a step has run, the answer it will get is not known: the first
\* one stands in for it.
NoAnswers(caller) ==
    [step \in RunSteps |-> CHOOSE a \in Answers(caller, step) : TRUE]

\* The node function of the graph, given the answers of what it awaits.
ToolResult(node, s, e, o, fileSet, tIdx, iIdx, timestamp) ==
    CASE node = "get_card_info" -> getCardInfo(s)
      [] node = "validate_nba_card" -> validateNBACard(s, e, o[node])
      [] node = "certify_card" -> certifyCard(s)
      [] node = "describe_card" ->
           describeCard(s, e, o[node].lookup, o[node].generation)
      [] node = "generate_embeddings" -> generateEmbeddings(s, o[node])
      [] node = "save_to_database" ->
           saveToDatabase(s, e, o[node],
                          [text |-> o["textIndex.upsert"],
                           image |-> o["imageIndex.upsert"]],
                          fileSet, tIdx, iIdx, timestamp)

\* executePSACardAgent run with nothing else in progress, from the node on:
\* the state it returns and what it leaves in the indexes and on disk.
RECURSIVE AloneFrom(_, _, _, _, _, _, _, _)
AloneFrom(s, init, node, e, o, fileSet, tIdx, iIdx) ==
    IF node = END
    THEN [state |-> s, files |-> fileSet, textIndex |-> tIdx,
          imageIndex |-> iIdx]
    ELSE LET r == ToolResult(node, s, e, o, fileSet, tIdx, iIdx, 0)
             merged == MergeUpdate(s, r.update)
             target == routeNext(merged)
             saved == node = "save_to_database"
         IN IF target \in Nodes \cup {END}
            THEN AloneFrom(merged, init, target, e, o,
                           IF saved THEN r.files ELSE fileSet,
                           IF saved THEN r.textIndex ELSE tIdx,
                           IF saved THEN r.imageIndex ELSE iIdx)
            ELSE [state |-> AgentFailed(init, "Invalid route"),
                  files |-> fileSet, textIndex |-> tIdx, imageIndex |-> iIdx]

Alone(input, e, o) ==
    AloneFrom(AgentStateOf(input), AgentStateOf(input), "get_card_info",
              e, o, {}, <<>>, <<>>)

\* executePSACardAgent(input) up to agent.invoke(initialState)
RunCall(caller, input) ==
    [op |-> "executePSACardAgent",
     input |-> input,
     initialState |-> AgentStateOf(input),
     state |-> AgentStateOf(input),
     at |-> "get_card_info",
     answers |-> NoAnswers(caller),
     store |-> NoRec]

\* The update of a node merged and the conditional edge taken.
Advance(run, update) ==
    LET merged == MergeUpdate(run.state, update)
        target == routeNext(merged)
    IN IF target \in Nodes \cup {END}
       THEN [run EXCEPT !.state = merged, !.at = target, !.store = NoRec]
       ELSE [run EXCEPT !.state = AgentFailed(run.initialState,
                                              "Invalid route"),
                        !.at = END, !.store = NoRec]

Answered(run, step, answer) ==
    [run EXCEPT !.answers = [run.answers EXCEPT ![step] = answer]]

RunsInit ==
    /\ env \in RunEnvs
    /\ pc = "runs"
    /\ state = AgentStateOf(NoInput)
    /\ initialState = AgentStateOf(NoInput)
    /\ runs = 0
    /\ textIndex = <<>>
    /\ imageIndex = <<>>
    /\ files = {}
    /\ trace = <<>>
    /\ calls = {}
    /\ faults = {}
    /\ extraction = NoRec
    /\ response = NoRec
    /\ lastCall = NoRec
    /\ lastStored = <<>>
    /\ replaced = {}
    /\ deleted = {}
    /\ inflight = <<>>

BeginRun ==
    \E caller \in Callers \ DOMAIN inflight :
        /\ inflight' = Begun(caller, RunCall(caller, RunInput))
        /\ UNCHANGED <<env, pc, state, initialState, runs, textIndex,
                       imageIndex, files, trace, calls, faults, extraction,
                       response, lastCall, lastStored, replaced, deleted>>

\* A node that touches neither the indexes nor the disk.
RunTool ==
    \E caller \in DOMAIN inflight :
        LET run == inflight[caller]
        IN /\ run.at \in Nodes \ {"save_to_database"}
           /\ \E answer \in Answers(caller, run.at) :
                 LET told == Answered(run, run.at, answer)
                     r == ToolResult(run.at, run.state, env, told.answers,
                                     files, textIndex, imageIndex, 0)
                 IN inflight' = Begun(caller, Advance(told, r.update))
           /\ UNCHANGED <<env, pc, state, initialState, runs, textIndex,
                          imageIndex, files, trace, calls, faults,
                          extraction, response, lastCall, lastStored,
                          replaced, deleted>>

\* save_to_database up to the first upsert storeCard awaits, or to its end
\* when it does not get that far.
RunSaveBegins ==
    \E caller \in DOMAIN inflight :
        LET run == inflight[caller]
        IN /\ run.at = "save_to_database"
           /\ run.store = NoRec
           /\ \E answer \in Answers(caller, "save_to_database") :
                 LET told == Answered(run, "save_to_database", answer)
                     r == saveToDatabase(run.state, env, answer,
                                         [text |-> "fails", image |-> "fails"],
                                         files, textIndex, imageIndex, 0)
                     card == run.state.validationResult.card_data
                     rec == [card |-> card,
                             imagePath |-> saveCardImage(card.cert_number,
                                                         run.state.imageData,
                                                         answer, files).path,
                             text |-> run.state.textEmbedding,
                             image |-> run.state.imageEmbedding]
                 IN /\ files' = r.files
                    /\ inflight' =
                         IF "textIndex.upsert" \in r.calls
                         THEN Begun(caller,
                                    [told EXCEPT !.store = StoreCall(rec, env, 0)])
                         ELSE Begun(caller, Advance(told, r.update))
           /\ UNCHANGED <<env, pc, state, initialState, runs, textIndex,
                          imageIndex, trace, calls, faults, extraction,
                          response, lastCall, lastStored, replaced, deleted>>

\* The catch block of saveToDatabase, or its return after storeCard.
SaveSettled(run) ==
    IF run.store.at = "threw"
    THEN Advance(run, saveToDatabaseFailed(run.state,
                         "Failed to store card in vector database"))
    ELSE IF run.store.at = "returned"
    THEN Advance(run, saveToDatabaseCompleted(run.state, run.store.record.card,
                                              run.store.record.imagePath))
    ELSE run

RunTextUpsertSettles ==
    \E caller \in DOMAIN inflight, outcome \in {"ok", "fails"} :
        LET run == inflight[caller]
        IN /\ run.store # NoRec
           /\ run.store.at = "textIndex.upsert"
           /\ textIndex' = Settled(textIndex, run.store,
                                    run.store.record.text, outcome)
           /\ inflight' =
                Begun(caller,
                      SaveSettled([Answered(run, "textIndex.upsert", outcome)
                                     EXCEPT !.store =
                                        AfterTextUpsert(run.store, outcome)]))
           /\ UNCHANGED <<env, pc, state, initialState, runs, imageIndex,
                          files, trace, calls, faults, extraction, response,
                          lastCall, lastStored, replaced, deleted>>

RunImageUpsertSettles ==
    \E caller \in DOMAIN inflight, outcome \in {"ok", "fails"} :
        LET run == inflight[caller]
        IN /\ run.store # NoRec
           /\ run.store.at = "imageIndex.upsert"
           /\ imageIndex' = Settled(imageIndex, run.store,
                                     run.store.record.image, outcome)
           /\ inflight' =
                Begun(caller,
                      SaveSettled([Answered(run, "imageIndex.upsert", outcome)
                                     EXCEPT !.store =
                                        AfterImageUpsert(run.store, outcome)]))
           /\ UNCHANGED <<env, pc, state, initialState, runs, textIndex,
                          files, trace, calls, faults, extraction, response,
                          lastCall, lastStored, replaced, deleted>>

\* agent.invoke resolves and executePSACardAgent returns the state.
RunReturns ==
    \E caller \in DOMAIN inflight :
        /\ inflight[caller].at = END
        /\ inflight' = Begun(caller, [inflight[caller] EXCEPT !.at = "returned"])
        /\ UNCHANGED <<env, pc, state, initialState, runs, textIndex,
                       imageIndex, files, trace, calls, faults, extraction,
                       response, lastCall, lastStored, replaced, deleted>>

RunsNext ==
    \/ BeginRun
    \/ RunTool
    \/ RunSaveBegins
    \/ RunTextUpsertSettles
    \/ RunImageUpsertSettles
    \/ RunReturns

RunsSpec == RunsInit /\ [][RunsNext]_vars

----------------------------------------------------------------------------
(* Vocabulary of the properties *)

Range(seq) == {seq[i] : i \in DOMAIN seq}

IsPrefix(a, b) == Len(a) <= Len(b) /\ \A i \in DOMAIN a : a[i] = b[i]

StepOrder == <<"get_card_info", "validate_nba_card", "certify_card",
               "describe_card", "generate_embeddings", "save_to_database">>

Finished == pc \in {END, "returned"}

EmbeddingCalls == {"generateTextEmbedding", "generateImageEmbedding"}
PersistenceCalls ==
    {"saveCardImage", "storeCard", "textIndex.upsert", "imageIndex.upsert"}

ExtractionAnswered == extraction # NoRec
MarkedInvalid == ExtractionAnswered /\ ~extraction.is_valid_psa_card
\* The five fields the claims call required, and whether the answer of the
\* extraction capability lacks one of them.
RequiredFields == {"player_name", "year", "brand", "psa_grade", "cert_number"}
Absent(a, field) ==
    IF field = "psa_grade" THEN a[field] = NoGrade
    ELSE a[field] \in {Undefined, ""}
MarkedValidComplete ==
    ExtractionAnswered /\ extraction.is_valid_psa_card
    /\ \A f \in RequiredFields : ~Absent(extraction, f)
MarkedValidIncomplete ==
    ExtractionAnswered /\ extraction.is_valid_psa_card
    /\ \E f \in RequiredFields : Absent(extraction, f)

Failure(kind) ==
    /\ state.finalResult # NoRec
    /\ ~state.finalResult.success
    /\ state.finalResult.error = kind

\* The kinds validate_nba_card can end a run with.
ExtractionKinds ==
    {validateThrown(state, "").finalResult.error,
     validateIncomplete.finalResult.error,
     validateRejected(NothingRead).finalResult.error}

----------------------------------------------------------------------------
(* C1: when get_card_info accepts the input, the extraction is marked valid
   with every required field, and neither an embedding call, saveCardImage
   nor storeCard fails, the finished run has executed save_to_database and
   carries finalResult.success = true for the extracted cert_number. *)
C1_ValidCardIsSaved ==
    (/\ Finished
     /\ state.imageBuffer # NoRec
     /\ MarkedValidComplete
     /\ faults \cap (EmbeddingCalls \cup PersistenceCalls) = {})
    => /\ trace = StepOrder
       /\ state.finalResult # NoRec
       /\ state.finalResult.success
       /\ state.finalResult.card.cert_number = extraction.cert_number

\* A run that was saved although the lookup and the text generation failed.
C1_Witness ==
    /\ pc = "returned"
    /\ MarkedValidComplete
    /\ faults = {"tavily.search", "model.invoke"}
    /\ state.finalResult # NoRec
    /\ state.finalResult.success
    /\ state.finalResult.card.cert_number = "87654321"

(* C2: in a run whose extraction is marked invalid, no embedding capability
   and no persistence operation is ever invoked. *)
C2_InvalidNeverEmbedsOrPersists ==
    MarkedInvalid => calls \cap (EmbeddingCalls \cup PersistenceCalls) = {}

\* A finished run whose image was marked invalid although every field was read.
C2_Witness ==
    /\ pc = "returned"
    /\ MarkedInvalid
    /\ ~MissingRequired(extraction)

(* C3: the steps executed in a run are a prefix of the fixed order; none is
   skipped, reordered or run twice. *)
C3_TraceIsPrefixOfOrder == IsPrefix(trace, StepOrder)

\* A run that went through all six steps and failed in the last one.
C3_Witness ==
    /\ pc = "returned"
    /\ trace = StepOrder
    /\ Failure("save_failed")

(* C4: every run that has started eventually returns a state whose
   finalResult is set, whatever the capabilities do. *)
C4_EveryRunReturnsAResult ==
    [](pc \in Nodes => <>(pc = "returned" /\ state.finalResult # NoRec))

\* A returned run in which three capabilities failed.
C4_Witness ==
    /\ pc = "returned"
    /\ state.finalResult # NoRec
    /\ Cardinality(faults) >= 3

(* C5, as claimed: a run whose extraction is marked invalid returns failure
   kind extraction_rejected with the capability's rejection reason. *)
C5_Claimed_KindExtractionRejected ==
    (pc = "returned" /\ MarkedInvalid)
    => /\ Failure("extraction_rejected")
       /\ state.finalResult.reason = extraction.rejection_reason

(* C5, amended: a run whose extraction is marked invalid returns
   finalResult.success = false with kind image_not_supported and, as reason,
   the capability's rejection reason when it gives one and the default
   rejection text otherwise. *)
C5_RejectedIsImageNotSupported ==
    (pc = "returned" /\ MarkedInvalid)
    => /\ Failure("image_not_supported")
       /\ state.finalResult.reason =
            IF Falsy(extraction.rejection_reason) THEN DefaultRejection
            ELSE extraction.rejection_reason

\* A rejected run that reports the reason the capability gave.
C5_Witness ==
    /\ pc = "returned"
    /\ MarkedInvalid
    /\ state.finalResult # NoRec
    /\ state.finalResult.reason = "No PSA grading label visible in the image"

(* C6, as claimed: a run whose extraction is marked valid with a required
   field absent ends at validate_nba_card with kind extraction_incomplete,
   a kind other than the one of a rejected image and the one of a failed
   capability call. *)
C6_Claimed_KindExtractionIncomplete ==
    (pc = "returned" /\ MarkedValidIncomplete)
    => /\ trace = SubSeq(StepOrder, 1, 2)
       /\ Failure("extraction_incomplete")
       /\ state.finalResult.error # validateRejected(NothingRead).finalResult.error
       /\ state.finalResult.error # validateThrown(state, "").finalResult.error

(* C6, amended: such a run ends at validate_nba_card with kind
   image_not_supported, the kind a rejected image gets too; it differs from
   the kind of a failed capability call (validation_failed), and from a
   rejection only by its fixed reason text. *)
C6_IncompleteIsImageNotSupported ==
    (pc = "returned" /\ MarkedValidIncomplete)
    => /\ trace = SubSeq(StepOrder, 1, 2)
       /\ Failure("image_not_supported")
       /\ state.finalResult.error = validateRejected(NothingRead).finalResult.error
       /\ state.finalResult.error # validateThrown(state, "").finalResult.error
       /\ state.finalResult.reason = IncompleteReason

\* A run stopped because only the certification number could not be read.
C6_Witness ==
    /\ pc = "returned"
    /\ MarkedValidIncomplete
    /\ Falsy(extraction.cert_number)
    /\ ~Falsy(extraction.player_name)

\* The inputs get_card_info must refuse, in the claim's own terms.
ClaimedAllowList ==
    {"image/jpeg", "image/png", "image/webp", "application/pdf"}
ClaimedCeiling == 20 * 1024 * 1024

RefusedInput ==
    \/ initialState.imageData = NoRec
    \/ initialState.mimeType \notin ClaimedAllowList
    \/ initialState.imageData.bytes > ClaimedCeiling

(* C7, as claimed: an input with a content type outside the allow-list, a
   missing payload or a payload over 20 MB ends the run in get_card_info
   with kind ingest_failed, without calling the extraction capability and
   with validationResult unset. *)
C7_Claimed_KindIngestFailed ==
    (pc = "returned" /\ RefusedInput)
    => /\ trace = SubSeq(StepOrder, 1, 1)
       /\ Failure("ingest_failed")
       /\ "generateObject" \notin calls
       /\ state.validationResult = NoRec

(* C7, amended: such an input ends the run in get_card_info with kind
   image_processing_failed, without calling the extraction capability and
   with validationResult unset. *)
C7_RefusedIsImageProcessingFailed ==
    (pc = "returned" /\ RefusedInput)
    => /\ trace = SubSeq(StepOrder, 1, 1)
       /\ Failure("image_processing_failed")
       /\ "generateObject" \notin calls
       /\ state.validationResult = NoRec

\* A run refused only because its payload is one byte over the ceiling.
C7_Witness ==
    /\ pc = "returned"
    /\ initialState.imageData # NoRec
    /\ initialState.mimeType \in ClaimedAllowList
    /\ initialState.imageData.bytes = ClaimedCeiling + 1
    /\ Failure("image_processing_failed")

\* The step that follows each of the two non-fatal steps.
FollowingStep(node) ==
    IF node = "certify_card" THEN "describe_card" ELSE "generate_embeddings"

\* The tool reported a failure of its own or of a capability it called.
ToolFailed ==
    \/ state.currentStep \in {"certify_card_failed", "describe_card_failed"}
    \/ faults # {}

(* C8: certify_card and describe_card, applied to any state, leave
   finalResult unset and set next to the step that follows them, whether
   they succeed or fail; a failure only appends messages to errors. *)
C8_NonFatalStepsKeepTheRoute ==
    pc = "applied"
    => /\ state.finalResult = NoRec
       /\ state.next = FollowingStep(trace[1])
       /\ routeNext(state) = FollowingStep(trace[1])
       /\ IsPrefix(initialState.errors, state.errors)
       /\ ToolFailed => Len(state.errors) > Len(initialState.errors)

\* describe_card applied to a state without card data after an earlier warning.
C8_Witness ==
    /\ pc = "applied"
    /\ trace = <<"describe_card">>
    /\ state.currentStep = "describe_card_failed"
    /\ Len(state.errors) = 2

\* The base description of the card the state carries.
BaseDescription ==
    buildBaseDescription(CardDataOfState(state), CertUrlOf(state))

EnrichmentThrew == faults \cap {"tavily.search", "model.invoke"} # {}

\* describe_card does not end the run: embeddings come next, and the save
\* after them when both embeddings are made.
ProceedsAfterDescribe ==
    /\ Len(trace) = 4 => pc = "generate_embeddings" /\ state.finalResult = NoRec
    /\ (Len(trace) = 5 /\ faults \cap EmbeddingCalls = {})
          => pc = "save_to_database" /\ state.finalResult = NoRec
    /\ Finished => Len(trace) >= 5

(* C9, as claimed: when the lookup or the text generation throws in
   describe_card, the run goes on to generate_embeddings and
   save_to_database, and the description in the state is the base
   description. *)
C9_Claimed_AnyThrowGivesBase ==
    ("describe_card" \in Range(trace) /\ EnrichmentThrew)
    => /\ ProceedsAfterDescribe
       /\ state.description = BaseDescription

(* C9, amended: when the lookup or the text generation throws in
   describe_card, the run goes on to generate_embeddings (and to
   save_to_database when both embeddings are made); the description is the
   base description when the text generation throws or returns no text, and
   the generated text when only the lookup throws. *)
C9_FallbackOnGenerationFailure ==
    ("describe_card" \in Range(trace) /\ EnrichmentThrew)
    => /\ ProceedsAfterDescribe
       /\ "model.invoke" \in faults => state.description = BaseDescription
       /\ state.description # BaseDescription
            => /\ "tavily.search" \in faults
               /\ state.description \in {g.text : g \in GenerationOutcomes}
               /\ state.description # NoSeq

\* A saved card whose description is the fallback after both calls threw.
C9_Witness ==
    /\ pc = "returned"
    /\ faults = {"tavily.search", "model.invoke"}
    /\ state.finalResult # NoRec
    /\ state.finalResult.success
    /\ state.finalResult.description = BaseDescription

(* C10: when either embedding capability raises, the run ends in
   generate_embeddings with finalResult.success = false and kind
   embedding_failed, which is none of the kinds of an extraction failure,
   and save_to_database is not executed. *)
C10_EmbeddingFailureIsFatal ==
    (faults \cap EmbeddingCalls # {})
    => /\ Finished
       /\ trace = SubSeq(StepOrder, 1, 5)
       /\ Failure("embedding_failed")
       /\ state.finalResult.error \notin ExtractionKinds
       /\ calls \cap PersistenceCalls = {}

\* A run ended by the image embedding alone.
C10_Witness ==
    /\ pc = "returned"
    /\ faults \cap EmbeddingCalls = {"generateImageEmbedding"}
    /\ Failure("embedding_failed")

----------------------------------------------------------------------------

\* The image-store write or the vector-store write of this run threw.
PersistenceThrew == faults \cap {"saveCardImage", "storeCard"} # {}

(* C11, as claimed: when saveCardImage or storeCard fails in
   save_to_database, the run returns finalResult.success = false with kind
   persistence_failed and a reason. *)
C11_Claimed_KindPersistenceFailed ==
    (pc = "returned" /\ PersistenceThrew)
    => /\ Failure("persistence_failed")
       /\ state.finalResult.reason \notin {Undefined, ""}

(* C11, amended: when saveCardImage or storeCard fails in save_to_database,
   the run returns finalResult.success = false with kind save_failed and,
   as reason, the message of the error the failed write threw. *)
C11_PersistenceFailureIsSaveFailed ==
    (pc = "returned" /\ PersistenceThrew)
    => /\ trace = StepOrder
       /\ Failure("save_failed")
       /\ state.finalResult.reason =
             IF "saveCardImage" \in faults
             THEN "Failed to save card image"
             ELSE "Failed to store card in vector database"

\* A run whose image was written and whose image-index upsert then failed.
C11_Witness ==
    /\ pc = "returned"
    /\ "imageIndex.upsert" \in faults
    /\ files # {}
    /\ Failure("save_failed")

----------------------------------------------------------------------------

\* The endpoint has answered a request whose run ended in failure.
AnsweredFailedRun ==
    /\ pc = "responded"
    /\ trace # <<>>
    /\ state.finalResult # NoRec
    /\ ~state.finalResult.success

(* C12: for every run that ends in failure, the response of the agent
   endpoint carries the kind of the step failure that ended the run,
   together with its reason. *)
C12_Claimed_ResponseCarriesStepKind ==
    AnsweredFailedRun
    => /\ response.error = state.finalResult.error
       /\ response.reason = state.finalResult.reason

----------------------------------------------------------------------------

\* The last call was a hybridSearch, or a getAllCards, that returned.
Searched == lastCall # NoRec /\ lastCall.op = "hybridSearch" /\ lastCall.ok
Listed == lastCall # NoRec /\ lastCall.op = "getAllCards" /\ lastCall.ok

\* The positions of a list of results or cards that are about an identifier.
EntriesFor(list, id) ==
    {i \in DOMAIN list : IF "card" \in DOMAIN list[i]
                         THEN list[i].card.cert_number = id
                         ELSE list[i].cert_number = id}

\* The attributes a result or card shows, set against those of a record.
ShowsRecord(entry, rec) ==
    /\ entry.image_path = rec.imagePath
    /\ IF "card" \in DOMAIN entry
       THEN entry.card = rec.card
       ELSE \A k \in DOMAIN rec.card : entry[k] = rec.card[k]

(* C13: once storeCard has succeeded twice for one cert_number with different
   attributes, and until that identifier is written again, every hybridSearch
   and every getAllCards returns at most one entry for it, and that entry
   carries the attributes of the second call. *)
C13_StoredTwiceIsOneRecord ==
    \A id \in replaced :
        /\ Searched =>
              /\ Cardinality(EntriesFor(lastCall.results, id)) <= 1
              /\ \A i \in EntriesFor(lastCall.results, id) :
                     ShowsRecord(lastCall.results[i], lastStored[id])
        /\ Listed =>
              /\ Cardinality(EntriesFor(lastCall.cards, id)) <= 1
              /\ \A i \in EntriesFor(lastCall.cards, id) :
                     ShowsRecord(lastCall.cards[i], lastStored[id])

\* A search that returns a record stored twice, found by both indexes.
C13_Witness ==
    /\ Searched
    /\ \E id \in replaced :
          /\ EntriesFor(lastCall.results, id) # {}
          /\ \E i \in DOMAIN lastCall.textMatches :
                 lastCall.textMatches[i].id = id
          /\ \E i \in DOMAIN lastCall.imageMatches :
                 lastCall.imageMatches[i].id = id

(* C14: after deleteCard(id) has returned and with no storeCard for that id
   since, no hybridSearch, whatever its query vectors, weights, topK and
   filters, returns a result whose cert_number is id. *)
C14_DeletedIsNeverFound ==
    Searched => \A id \in deleted : EntriesFor(lastCall.results, id) = {}

\* A search that still finds the other record after one was deleted.
C14_Witness ==
    /\ Searched
    /\ deleted # {}
    /\ lastCall.results # <<>>

----------------------------------------------------------------------------

\* What the caller asked for: the value passed, the documented default for
\* a field left out.
Requested(key, default) ==
    IF key \in DOMAIN lastCall.params THEN lastCall.params[key] ELSE default

NonIncreasing(list, field) ==
    \A i, j \in DOMAIN list : i < j => list[i][field] >= list[j][field]

(* C15: every hybridSearch returns its results in non-increasing order of
   similarity_score and returns no more entries than the topK the caller
   requested. *)
C15_Claimed_OrderedAndAtMostTopK ==
    Searched
    => /\ NonIncreasing(lastCall.results, "similarity_score")
       /\ Len(lastCall.results) <= Requested("top_k", DefaultTopK)

(* C16: every result has similarity_score = wT * text_score + wI *
   image_score, wT and wI being the weights the caller supplied, whatever
   their value, and 0.6 and 0.4 only for a weight left out. *)
C16_Claimed_WeightedSumOfSuppliedWeights ==
    Searched
    => \A i \in DOMAIN lastCall.results :
          lastCall.results[i].similarity_score =
              Requested("text_weight", DefaultTextWeight)
                  * lastCall.results[i].text_score
              + Requested("image_weight", DefaultImageWeight)
                  * lastCall.results[i].image_score

(* C17: with text_weight = 1 and image_weight = 0, hybridSearch returns the
   merged entries in the order of their text_score alone, whatever their
   image_score. *)
C17_Claimed_TextWeightOnlyRanksByText ==
    (/\ Searched
     /\ Requested("text_weight", DefaultTextWeight) = 10
     /\ Requested("image_weight", DefaultImageWeight) = 0)
    => NonIncreasing(lastCall.results, "text_score")

----------------------------------------------------------------------------

\* The last call searched with the vectors of the record a successful
\* storeCard had stored just before, asking for one result or more.
SearchedOwnVectors ==
    /\ Searched
    /\ lastCall.after # NoRec
    /\ lastCall.textQuery = lastCall.after.text
    /\ lastCall.imageQuery = lastCall.after.image
    /\ Requested("top_k", DefaultTopK) >= 1

FirstAndHighest(list, id) ==
    /\ list # <<>>
    /\ list[1].card.cert_number = id
    /\ \A i \in DOMAIN list :
          list[1].similarity_score >= list[i].similarity_score

\* Another stored record scores against both query vectors what the record
\* itself scores.
TiesInBothIndexes(rec) ==
    \E id \in (DOMAIN textIndex \cap DOMAIN imageIndex) \ {rec.card.cert_number} :
        /\ Cosine(rec.text, textIndex[id].values) = Cosine(rec.text, rec.text)
        /\ Cosine(rec.image, imageIndex[id].values)
               = Cosine(rec.image, rec.image)

\* Both indexes returned the record among their matches.
ReturnedByBoth(id) ==
    /\ \E i \in DOMAIN lastCall.textMatches : lastCall.textMatches[i].id = id
    /\ \E i \in DOMAIN lastCall.imageMatches : lastCall.imageMatches[i].id = id

(* C18, as claimed: a hybridSearch right after a successful storeCard, with
   the record's own vectors, default weights, no filters and topK >= 1,
   returns the record first, with a similarity_score no other result
   exceeds. *)
C18_Claimed_OwnVectorsRankFirst ==
    (/\ SearchedOwnVectors
     /\ DOMAIN lastCall.params \subseteq {"query", "top_k"})
    => FirstAndHighest(lastCall.results, lastCall.after.card.cert_number)

(* C18, amended: such a search returns the record first, with a
   similarity_score no other result exceeds, when the weights in effect are
   positive, both indexes return the record among their matches and no other
   stored record scores in both indexes what the record itself scores. *)
C18_OwnVectorsRankFirstUnlessTied ==
    (/\ SearchedOwnVectors
     /\ OrNumber(lastCall.params, "text_weight", DefaultTextWeight) > 0
     /\ OrNumber(lastCall.params, "image_weight", DefaultImageWeight) > 0
     /\ ReturnedByBoth(lastCall.after.card.cert_number)
     /\ ~TiesInBothIndexes(lastCall.after))
    => FirstAndHighest(lastCall.results, lastCall.after.card.cert_number)

\* The record is returned ahead of another stored record.
C18_Witness ==
    /\ SearchedOwnVectors
    /\ ReturnedByBoth(lastCall.after.card.cert_number)
    /\ ~TiesInBothIndexes(lastCall.after)
    /\ Len(lastCall.results) = 2
    /\ lastCall.results[1].card.cert_number = lastCall.after.card.cert_number
    /\ lastCall.results[2].similarity_score > 0

----------------------------------------------------------------------------

StoredNow(index, id, values, rec) ==
    /\ id \in DOMAIN index
    /\ index[id].values = values
    /\ index[id].metadata.cert_number = rec.card.cert_number
    /\ index[id].metadata.player_name = rec.card.player_name
    /\ index[id].metadata.image_path = rec.imagePath

(* C19: storeCard throws to its caller whenever the text-index upsert or the
   image-index upsert fails, and returns normally only when both upserts
   have completed. *)
C19_StoreCardThrowsOnEitherUpsert ==
    (lastCall # NoRec /\ lastCall.op = "storeCard")
    => /\ lastCall.faults \cap {"textIndex.upsert", "imageIndex.upsert"} # {}
            => /\ ~lastCall.ok
               /\ lastCall.message = "Failed to store card in vector database"
       /\ lastCall.ok
            => /\ lastCall.faults = {}
               /\ StoredNow(textIndex, lastCall.id, lastCall.record.text,
                            lastCall.record)
               /\ StoredNow(imageIndex, lastCall.id, lastCall.record.image,
                            lastCall.record)

\* A storeCard that threw after the text index had taken the record.
C19_Witness ==
    /\ lastCall # NoRec
    /\ lastCall.op = "storeCard"
    /\ ~lastCall.ok
    /\ "imageIndex.upsert" \in lastCall.faults
    /\ StoredNow(textIndex, lastCall.id, lastCall.record.text, lastCall.record)
    /\ lastCall.id \notin DOMAIN imageIndex

\* The last call was a deleteCard of which one deletion failed and the other
\* did not.
DeletedFromOneIndex ==
    /\ lastCall # NoRec
    /\ lastCall.op = "deleteCard"
    /\ lastCall.outcome.text # lastCall.outcome.image

\* What deleteCard reports when the two deletions end the other way round.
MirroredReport ==
    deleteCard(lastCall.id, env,
               [text |-> lastCall.outcome.image, image |-> lastCall.outcome.text],
               textIndex, imageIndex).message

(* C20: deleteCard either removes the identifier from both indexes or, when
   exactly one of the two deletions fails, reports a failure that tells
   which deletion succeeded: the report is not the one given when it is the
   other deletion that fails. *)
C20_Claimed_PartialDeleteNamesTheIndex ==
    (lastCall # NoRec /\ lastCall.op = "deleteCard")
    => /\ lastCall.ok => /\ lastCall.id \notin DOMAIN textIndex
                         /\ lastCall.id \notin DOMAIN imageIndex
       /\ DeletedFromOneIndex => /\ ~lastCall.ok
                                  /\ lastCall.message # MirroredReport

----------------------------------------------------------------------------

\* The constraints the caller supplied: an equality for a name it gave (an
\* empty string is no name), a lower and an upper bound on the grade.
SuppliedFilters ==
    IF "filters" \in DOMAIN lastCall.params THEN lastCall.params.filters
    ELSE <<>>
SuppliedEquals ==
    {k \in {"player_name", "year", "brand"} \cap DOMAIN SuppliedFilters :
        SuppliedFilters[k] \notin {Undefined, ""}}
SuppliedBounds == {"min_grade", "max_grade"} \cap DOMAIN SuppliedFilters

\* A filter that is the conjunction of exactly the supplied constraints.
IsConjunctionOfSupplied(filter) ==
    IF SuppliedEquals = {} /\ SuppliedBounds = {}
    THEN filter = NoRec
    ELSE /\ filter # NoRec
         /\ DOMAIN filter = SuppliedEquals
               \cup (IF SuppliedBounds # {} THEN {"psa_grade"} ELSE {})
         /\ \A k \in SuppliedEquals : filter[k] = [eq |-> SuppliedFilters[k]]
         /\ SuppliedBounds # {} =>
               /\ filter.psa_grade.gte =
                     {SuppliedFilters[k] : k \in SuppliedBounds \cap {"min_grade"}}
               /\ filter.psa_grade.lte =
                     {SuppliedFilters[k] : k \in SuppliedBounds \cap {"max_grade"}}

(* C21: hybridSearch sends the same metadata filter to both index queries,
   the conjunction of exactly the constraints the caller supplied (equality
   on player_name, year and brand, psa_grade >= min_grade and <= max_grade),
   and sends no filter when no constraint is supplied; every match returned
   meets every supplied constraint. *)
C21_FilterIsConjunctionOfSupplied ==
    Searched
    => /\ lastCall.textFilter = lastCall.imageFilter
       /\ IsConjunctionOfSupplied(lastCall.textFilter)
       /\ \A i \in DOMAIN lastCall.results :
             LET card == lastCall.results[i].card
             IN /\ \A k \in SuppliedEquals : card[k] = SuppliedFilters[k]
                /\ "min_grade" \in SuppliedBounds
                      => card.psa_grade >= SuppliedFilters.min_grade
                /\ "max_grade" \in SuppliedBounds
                      => card.psa_grade <= SuppliedFilters.max_grade

\* A search bounded on both sides of the grade that found a record while
\* records of other grades were stored.
C21_Witness ==
    /\ Searched
    /\ SuppliedBounds = {"min_grade", "max_grade"}
    /\ lastCall.results # <<>>
    /\ \E id \in DOMAIN textIndex :
          textIndex[id].metadata.psa_grade > SuppliedFilters.max_grade
    /\ \E id \in DOMAIN textIndex :
          textIndex[id].metadata.psa_grade < SuppliedFilters.min_grade

(* C22: getAllCards asks one index, the text index, for at most 100 records,
   returns no more records than that, and every record it returns has empty
   text_embedding and image_embedding. *)
C22_ListReadsOneIndexWithoutVectors ==
    Listed
    => /\ lastCall.queried = {"textIndex"}
       /\ lastCall.topK = 100
       /\ Len(lastCall.cards) <= lastCall.topK
       /\ \A i \in DOMAIN lastCall.cards :
             /\ lastCall.cards[i].text_embedding = <<>>
             /\ lastCall.cards[i].image_embedding = <<>>
             /\ lastCall.cards[i].id \in DOMAIN textIndex
       /\ \A id \in DOMAIN textIndex : EntriesFor(lastCall.cards, id) # {}

\* A listing of two records of which the image index holds only one.
C22_Witness ==
    /\ Listed
    /\ Len(lastCall.cards) = 2
    /\ \E i \in DOMAIN lastCall.cards :
          lastCall.cards[i].id \notin DOMAIN imageIndex

----------------------------------------------------------------------------

EnrichCalls == {"tavily.search", "model.invoke"}

(* C23, as claimed: in a run whose shouldWebSearch flag is unset neither the
   lookup capability nor the text-generation capability of describe_card is
   called. *)
C23_Claimed_NoEnrichCallWithoutFlag ==
    ~state.shouldWebSearch => calls \cap EnrichCalls = {}

(* C23, amended: the lookup capability is called only in runs whose
   shouldWebSearch flag is set; the text-generation capability is called in
   every run that executes describe_card, whatever the flag. *)
C23_OnlyLookupIsGatedByFlag ==
    /\ "tavily.search" \in calls => state.shouldWebSearch
    /\ "describe_card" \in Range(trace) => "model.invoke" \in calls

\* A run with the flag unset that generated a description with no lookup.
C23_Witness ==
    /\ "describe_card" \in Range(trace)
    /\ ~state.shouldWebSearch
    /\ calls \cap EnrichCalls = {"model.invoke"}

----------------------------------------------------------------------------

(* C25: in every reachable state of a run textEmbedding is set if and only
   if imageEmbedding is set: generate_embeddings writes both vectors after
   both calls have completed, and neither when a call fails. *)
C25_BothEmbeddingsOrNeither ==
    /\ (state.textEmbedding = NoSeq) <=> (state.imageEmbedding = NoSeq)
    /\ faults \cap EmbeddingCalls # {} => state.textEmbedding = NoSeq
    /\ (state.currentStep = "generate_embeddings_completed")
          => state.textEmbedding # NoSeq

\* The text embedding was made, the image embedding failed, and the state
\* has neither.
C25_Witness ==
    /\ faults \cap EmbeddingCalls = {"generateImageEmbedding"}
    /\ state.textEmbedding = NoSeq
    /\ state.imageEmbedding = NoSeq

(* C26: a state with finalResult set has next at the terminator and no step
   left to run, so no step is executed after finalResult has been set, and
   within a run finalResult is never changed once set. *)
C26_FinalResultEndsTheRun ==
    /\ [](state.finalResult # NoRec => Finished /\ routeNext(state) = END)
    /\ [][(state.finalResult # NoRec /\ runs' = runs)
            => (state'.finalResult = state.finalResult /\ trace' = trace)]_vars

\* A run whose validation set finalResult and that ended there.
C26_Witness ==
    /\ pc = "returned"
    /\ state.finalResult # NoRec
    /\ trace = SubSeq(StepOrder, 1, 2)

----------------------------------------------------------------------------

\* The raw score an index reported for an identifier, 0 when its answer does
\* not have the identifier.
ReportedScore(matches, id) ==
    IF \E i \in DOMAIN matches : matches[i].id = id
    THEN (CHOOSE m \in Range(matches) : m.id = id).score
    ELSE 0

(* C30: in the list hybridSearch builds before it truncates, an identifier
   occurs at most once and every identifier of either answer occurs; an
   entry has the raw score of each index that returned its identifier and 0
   for an index that did not. *)
C30_MergedOncePerIdentifier ==
    Searched
    => /\ \A i, j \in DOMAIN lastCall.merged :
             lastCall.merged[i].id = lastCall.merged[j].id => i = j
       /\ {lastCall.merged[i].id : i \in DOMAIN lastCall.merged}
             = {m.id : m \in Range(lastCall.textMatches)}
               \cup {m.id : m \in Range(lastCall.imageMatches)}
       /\ \A i \in DOMAIN lastCall.merged :
             LET entry == lastCall.merged[i]
             IN /\ entry.text_score
                     = ReportedScore(lastCall.textMatches, entry.id)
                /\ entry.image_score
                     = ReportedScore(lastCall.imageMatches, entry.id)

\* A merge of one identifier found by both indexes, one found by the text
\* index alone and one found by the image index alone.
C30_Witness ==
    /\ Searched
    /\ \E a, b, c \in DOMAIN lastCall.merged :
          /\ lastCall.merged[a].text_score > 0
          /\ lastCall.merged[a].image_score > 0
          /\ lastCall.merged[b].text_score > 0
          /\ lastCall.merged[b].id \notin {m.id : m \in Range(lastCall.imageMatches)}
          /\ lastCall.merged[c].image_score > 0
          /\ lastCall.merged[c].id \notin {m.id : m \in Range(lastCall.textMatches)}

----------------------------------------------------------------------------

\* The last call was a storeCard that had a client to write with.
StoreAttempted ==
    /\ lastCall # NoRec
    /\ lastCall.op = "storeCard"
    /\ "textIndex.upsert" \in lastCall.calls

(* C27 as stated: storeCard issues its two index writes together, so the
   image-index upsert is attempted in every call that attempts the
   text-index upsert, also when the text-index upsert fails. *)
C27_Claimed_ImageUpsertAlwaysAttempted ==
    StoreAttempted => "imageIndex.upsert" \in lastCall.calls

(* C27: storeCard awaits its text-index upsert before it issues the
   image-index upsert: the image-index upsert is attempted exactly when the
   text-index upsert has succeeded, and a failed text-index upsert leaves
   the image index as it was. *)
C27_ImageUpsertFollowsTextUpsert ==
    StoreAttempted
    => /\ ("imageIndex.upsert" \in lastCall.calls)
            <=> ("textIndex.upsert" \notin lastCall.faults)
       /\ "textIndex.upsert" \in lastCall.faults
            => /\ ~lastCall.ok
               /\ "imageIndex.upsert" \notin lastCall.faults

\* A storeCard whose text-index upsert failed: the image-index upsert was
\* not made.
C27_Witness ==
    /\ StoreAttempted
    /\ "textIndex.upsert" \in lastCall.faults
    /\ "imageIndex.upsert" \notin lastCall.calls

----------------------------------------------------------------------------

\* The calls of storeCard that have returned.
Returned == {c \in DOMAIN inflight : inflight[c].at = "returned"}

(* C29 as stated: after any interleaving of two storeCard calls for one
   certification number that both return, the text index and the image index
   hold the same metadata for that identifier. *)
C29_Claimed_IndexesAgreeAfterRace ==
    \A a, b \in Returned :
        (a # b /\ inflight[a].id = inflight[b].id)
        => textIndex[inflight[a].id].metadata
             = imageIndex[inflight[a].id].metadata

----------------------------------------------------------------------------

\* The entry hybridSearch returned for the identifier.
ReturnedFor(id) ==
    {lastCall.results[i] : i \in {j \in DOMAIN lastCall.results :
                                     lastCall.results[j].id = id}}

(* C28: the two writes of storeCard are not undone: a call that failed at
   its image-index upsert leaves the entry its text-index upsert wrote, and
   a hybridSearch returns an identifier that one index holds and the other
   does not with the score of the index that holds it and 0 for the other. *)
C28_PartialStoreIsSearchable ==
    /\ \A c \in DOMAIN inflight :
          inflight[c].failed = "imageIndex.upsert"
          => inflight[c].id \in DOMAIN textIndex
    /\ Searched
       => \A i \in DOMAIN lastCall.results :
            LET r == lastCall.results[i]
            IN /\ r.id \notin DOMAIN imageIndex
                    => /\ r.image_score = 0
                       /\ r.text_score
                            = ReportedScore(lastCall.textMatches, r.id)
               /\ r.id \notin DOMAIN textIndex
                    => /\ r.text_score = 0
                       /\ r.image_score
                            = ReportedScore(lastCall.imageMatches, r.id)

\* One identifier is half written for good, its call having failed at the
\* image-index upsert, another is half written by a call still in flight,
\* and a hybridSearch has returned both with an image score of 0.
C28_Witness ==
    /\ Searched
    /\ \E a, b \in DOMAIN inflight :
          /\ inflight[a].failed = "imageIndex.upsert"
          /\ inflight[b].at = "imageIndex.upsert"
          /\ inflight[a].id # inflight[b].id
          /\ \A c \in {a, b} :
                /\ inflight[c].id \in DOMAIN textIndex
                /\ inflight[c].id \notin DOMAIN imageIndex
                /\ \E r \in ReturnedFor(inflight[c].id) :
                      r.text_score > 0 /\ r.image_score = 0

----------------------------------------------------------------------------

\* What an index holds under the identifier.
EntryAt(index, id) == IF id \in DOMAIN index THEN index[id] ELSE NoRec

\* The runs of executePSACardAgent that have returned.
RunsReturned == {c \in DOMAIN inflight : inflight[c].at = "returned"}

(* C24: of two runs of executePSACardAgent in progress at once on cards
   with different certification numbers, each returns the state, and leaves
   under its own identifier the index entries and the image file, that it
   returns and leaves when it runs alone and the capabilities it calls
   answer the same. *)
C24_RunsDoNotInteract ==
    \A c \in RunsReturned :
        LET run == inflight[c]
            alone == Alone(run.input, env, run.answers)
        IN /\ run.state = alone.state
           /\ EntryAt(textIndex, CertOf(c)) = EntryAt(alone.textIndex, CertOf(c))
           /\ EntryAt(imageIndex, CertOf(c))
                = EntryAt(alone.imageIndex, CertOf(c))
           /\ {f \in files : f[2] = CertOf(c)} = alone.files

\* Both runs have returned, the upserts of one having settled between the
\* two upserts of the other: one stored its card, the other failed at its
\* image-index upsert.
C24_Witness ==
    /\ RunsReturned = Callers
    /\ \E a, b \in Callers :
          /\ a # b
          /\ inflight[a].state.finalResult.success
          /\ CertOf(a) \in DOMAIN textIndex \cap DOMAIN imageIndex
          /\ ~inflight[b].state.finalResult.success
          /\ inflight[b].answers["imageIndex.upsert"] = "fails"
          /\ CertOf(b) \in DOMAIN textIndex \ DOMAIN imageIndex

----------------------------------------------------------------------------

\* The run has executed save_to_database and nothing it called failed but,
\* at most, saveCardImage on the payload itself: no file-system error, no
\* failed upsert, no missing client.
SavedWithServicesUp ==
    /\ Finished
    /\ "save_to_database" \in Range(trace)
    /\ faults \subseteq {"saveCardImage"}

(* C31 as stated: a payload that get_card_info accepts is accepted by
   saveCardImage too: a run that reaches save_to_database with every
   external service succeeding does not end in a persistence failure. *)
C31_Claimed_AcceptedPayloadIsStorable ==
    SavedWithServicesUp
    => /\ "saveCardImage" \notin faults
       /\ state.finalResult.success

----------------------------------------------------------------------------

\* The run of the caller carries finalResult.success = true.
Succeeded(calls_, c) ==
    /\ c \in DOMAIN calls_
    /\ calls_[c].state.finalResult # NoRec
    /\ calls_[c].state.finalResult.success

(* C32: finalResult.success = true is set only by save_to_database, in the
   step in which the image-index upsert of its storeCard succeeds, after
   saveCardImage and then the text-index upsert have succeeded in that run;
   at that moment the file is on disk and both indexes hold the identifier
   with the run's vectors and stored image path. *)
C32_SuccessOnlyAfterAllWrites ==
    [][\A c \in Callers :
         (Succeeded(inflight', c) /\ ~Succeeded(inflight, c))
         => LET before == inflight[c]
                after == inflight'[c]
                id == after.state.validationResult.card_data.cert_number
            IN /\ before.at = "save_to_database"
               /\ before.store # NoRec
               /\ before.store.at = "imageIndex.upsert"
               /\ after.answers["save_to_database"] = "ok"
               /\ after.answers["textIndex.upsert"] = "ok"
               /\ after.answers["imageIndex.upsert"] = "ok"
               /\ after.state.imagePath \in files
               /\ id \in DOMAIN textIndex
               /\ textIndex[id].values = after.state.textEmbedding
               /\ textIndex[id].metadata.image_path = after.state.imagePath
               /\ imageIndex' # imageIndex
               /\ id \in DOMAIN imageIndex'
               /\ imageIndex'[id].values = after.state.imageEmbedding
               /\ imageIndex'[id].metadata.image_path = after.state.imagePath
               /\ after.state.finalResult.imagePath = after.state.imagePath]_vars

\* A run that has returned success, with its card in both indexes.
C32_Witness ==
    \E c \in DOMAIN inflight :
        /\ inflight[c].at = "returned"
        /\ Succeeded(inflight, c)
        /\ CertOf(c) \in DOMAIN textIndex \cap DOMAIN imageIndex
        /\ inflight[c].state.imagePath \in files

----------------------------------------------------------------------------

\* The entries the two indexes hold.
StoredEntries ==
    {textIndex[id] : id \in DOMAIN textIndex}
    \cup {imageIndex[id] : id \in DOMAIN imageIndex}

(* C33 as stated: an identifier enters the indexes only through the
   storeCard of save_to_database, in a run whose extraction was marked valid
   with every required attribute: every stored record has player_name, year,
   brand, psa_grade and cert_number, and the indexes change in no step but
   save_to_database. *)
C33_Claimed_OnlyValidatedCardsAreStored ==
    /\ \A entry \in StoredEntries :
          \A f \in RequiredFields : ~Absent(entry.metadata, f)
    /\ StoredEntries # {} => "save_to_database" \in Range(trace)

----------------------------------------------------------------------------

InputFields == {"imageData", "mimeType", "userHint", "shouldWebSearch"}
ControlFields == {"currentStep", "errors", "next", "finalResult"}

\* The output fields of each step.
OwnFields(node) ==
    CASE node = "get_card_info" -> {"imageBuffer"}
      [] node = "validate_nba_card" -> {"validationResult"}
      [] node = "certify_card" -> {"certificationResult"}
      [] node = "describe_card" -> {"description", "webSearchResults"}
      [] node = "generate_embeddings" -> {"textEmbedding", "imageEmbedding"}
      [] node = "save_to_database" -> {"imagePath"}

(* C34: a step of a run leaves the input fields and the output fields of the
   other steps as they were: only its own output fields and the control
   fields currentStep, errors, next and finalResult can differ after it. *)
C34_StepsKeepOtherFields ==
    [][(pc \in Nodes)
       => \A f \in DOMAIN state \ (OwnFields(pc) \cup ControlFields) :
             (state'[f] = state[f])]_vars

\* After the last step of a run the outputs of all the earlier steps are
\* still in the state.
C34_Witness ==
    /\ pc = "returned"
    /\ trace = StepOrder
    /\ state.imageData = initialState.imageData
    /\ state.imageBuffer # NoRec
    /\ state.validationResult # NoRec
    /\ state.certificationResult # NoRec
    /\ state.description # NoSeq
    /\ state.textEmbedding # NoSeq
    /\ state.imageEmbedding # NoSeq
    /\ state.imagePath # NoSeq

----------------------------------------------------------------------------

\* The text generation fails: it has no key to be called with, or it throws.
GenerationFails(e, generation) ==
    \/ ~(e.GOOGLE_GENERATIVE_AI_API_KEY \/ e.GOOGLE_API_KEY)
    \/ generation.throws

\* describe_card has been applied to a state with a valid card and its text
\* generation failed.
DescribedByFallback ==
    /\ pc = "applied"
    /\ trace = <<"describe_card">>
    /\ HasValidCard(initialState)
    /\ \/ "model.invoke" \in faults
       \/ ~(env.GOOGLE_GENERATIVE_AI_API_KEY \/ env.GOOGLE_API_KEY)

\* The states that carry the card attributes and the verification reference
\* of the state.
SameCardAs(s) ==
    {s2 \in ToolStates : /\ s2.validationResult = s.validationResult
                          /\ CertUrlOf(s2) = CertUrlOf(s)}

(* C36: when describe_card falls back because its text generation fails,
   the description is the same when it is applied again with a failing text
   generation, to the same state or to the state it returned, whatever the
   failure and whatever the lookup does; every state with the same card
   attributes and verification reference gets that description. *)
C36_FallbackIsDeterministic ==
    DescribedByFallback
    => /\ \A e \in Envs, lookup \in LookupOutcomes,
             generation \in GenerationOutcomes :
             GenerationFails(e, generation)
             => /\ describeCard(initialState, e, lookup, generation)
                      .update.description = state.description
                /\ describeCard(state, e, lookup, generation)
                      .update.description = state.description
       /\ \A s2 \in SameCardAs(initialState), lookup \in LookupOutcomes,
             generation \in GenerationOutcomes :
             GenerationFails(env, generation)
             => describeCard(s2, env, lookup, generation).update.description
                  = state.description

\* The text generation threw after a lookup that had found something: the
\* description is the fallback, with the verification reference in it.
C36_Witness ==
    /\ DescribedByFallback
    /\ faults = {"model.invoke"}
    /\ "tavily.search" \in calls
    /\ state.webSearchResults # Undefined
    /\ CertUrlOf(state) # NoSeq
    /\ state.description # NoSeq
    /\ Cardinality(SameCardAs(initialState)) > 1

----------------------------------------------------------------------------

\* The steps that record a warning and let the run go on.
WarningCalls == {"tavily.search", "model.invoke"}

(* C35: every step of a run leaves the errors list it found as a prefix of
   the list it leaves, so the returned state has every warning of the run;
   and warnings alone do not make a run fail: a finished run with a
   non-empty errors list in which nothing but a lookup or a text generation
   failed carries finalResult.success = true. *)
C35_ErrorsOnlyGrow ==
    /\ [][(pc \in Nodes) => IsPrefix(state.errors, state'.errors)]_vars
    /\ []((/\ Finished
           /\ trace = StepOrder
           /\ state.errors # <<>>
           /\ faults \subseteq WarningCalls)
          => state.finalResult.success)

\* A run that returned success with the warnings of a failed lookup and a
\* failed text generation in its errors list.
C35_Witness ==
    /\ pc = "returned"
    /\ state.finalResult # NoRec
    /\ state.finalResult.success
    /\ Len(state.errors) = 2
    /\ faults = WarningCalls

----------------------------------------------------------------------------

\* The verification reference of a certification number.
ReferenceFor(certNumber) == <<"https://www.psacard.com/cert/", certNumber>>

RespondedSuccess ==
    /\ pc = "responded"
    /\ "success" \in DOMAIN response
    /\ response.success

(* C37: in a run that has executed certify_card, certificationResult is
   certified with the reference made of the fixed address and the extracted
   cert_number, and the step has not taken its failure branch; every
   success response carries the reference of the card it reports. *)
C37_EveryRunIsCertified ==
    /\ "certify_card" \in Range(trace)
       => /\ state.certificationResult
               = [is_certified |-> TRUE,
                  cert_url |-> ReferenceFor(extraction.cert_number)]
          /\ "No valid card data to certify" \notin Range(state.errors)
    /\ state.currentStep # "certify_card_failed"
    /\ RespondedSuccess
       => response.data.cert_url
            = ReferenceFor(response.data.card.cert_number)

\* A success response with the reference of the second card.
C37_Witness ==
    /\ RespondedSuccess
    /\ "certify_card" \in Range(trace)
    /\ response.data.cert_url = ReferenceFor("87654321")

----------------------------------------------------------------------------

SideSteps == {"generate_synthetic_document", "generate_audio_narration"}

\* The step that follows each optional step.
AfterSideStep(node) ==
    IF node = "generate_synthetic_document" THEN "generate_audio_narration"
    ELSE "generate_embeddings"

\* An optional step has just been applied.
SideApplied == lastCall # NoRec /\ lastCall.op \in SideSteps

(* C38: generate_synthetic_document and generate_audio_narration, skipped,
   succeeded or failed, return an update without finalResult whose next is
   the step that follows, generate_audio_narration and then
   generate_embeddings, where the chain ends; an update that has errors has
   the earlier errors with one message appended. *)
C38_SideStepsAlwaysForward ==
    /\ SideApplied
       => /\ "finalResult" \notin DOMAIN lastCall.update
          /\ state.finalResult = lastCall.before.finalResult
          /\ lastCall.update.next = AfterSideStep(lastCall.op)
          /\ pc = AfterSideStep(lastCall.op)
          /\ IF "errors" \in DOMAIN lastCall.update
             THEN /\ IsPrefix(lastCall.before.errors, state.errors)
                  /\ Len(state.errors) = Len(lastCall.before.errors) + 1
             ELSE state.errors = lastCall.before.errors
          /\ lastCall.update.currentStep
               \in {"generate_synthetic_document_failed",
                    "generate_audio_narration_failed"}
             => "errors" \in DOMAIN lastCall.update
    /\ pc \in SideSteps \cup {"generate_embeddings"}

\* Both optional steps failed one after the other and the chain has come
\* to generate_embeddings with their two messages.
C38_Witness ==
    /\ trace = <<"generate_synthetic_document", "generate_audio_narration">>
    /\ pc = "generate_embeddings"
    /\ state.currentStep = "generate_audio_narration_failed"
    /\ Len(state.errors) = Len(initialState.errors) + 2
    /\ state.finalResult = NoRec

====
